---- MODULE Spec2Model ----
(***************************************************************************)
(* Task orchestration core of the code-diagram orchestrator and of the     *)
(* mermaid / solid servers: TaskScheduler, Cache, RateLimiter, the worker  *)
(* execution loop and result synthesis.                                    *)
(***************************************************************************)
EXTENDS Integers, Sequences, FiniteSets, TLC

(***************************************************************************)
(* Bounds of the model.                                                    *)
(***************************************************************************)
MaxTasks == 3
MaxDeps == 2
\* entries of a worker_assignments dict handed to execute_worker_tasks
MaxAssignments == 2
\* the clock stops here
MaxTime == 61
\* ttl_seconds the caches are constructed with
CacheTtl == 60
\* calls_per_minute the rate limiters are constructed with
CallsPerMinute == 2
\* backend calls one run may make
MaxBackendCalls == 3
\* tool calls one run may begin
MaxToolCalls == 2
\* entries of a result map handed to synthesize_results
MaxResults == 3
\* assignments handed to assign_workers
MaxAssigned == 2
\* calls_per_minute the orchestrator serving the tools is constructed with
ToolCallsPerMinute == 1
\* max_retries of the RouterIntegration
MaxRetries == 2
\* retry_interval of the RouterIntegration, in seconds
RetryInterval == 5
\* health_check_interval of the RouterIntegration, in seconds
HealthCheckInterval == 2
\* health reports sent in one run
MaxReports == 3
\* calls of start, start_health_check and stop made on one RouterIntegration
MaxApiCalls == 4

VARIABLES
    assignments,    \* create_plan: the list of assignments handed in
    planPc,         \* create_plan: "pending" before the call, "done" after it
    planOut,        \* create_plan: what the call produced (plan or exception)
    proc,           \* per caller: where it stands in the call it is making
    now,            \* time.time(), in whole seconds
    cache,          \* Cache.cache: key -> (timestamp, value)
    ttl_seconds,    \* Cache.ttl_seconds
    cacheLog,       \* the last Cache.get: what it was asked and what it answered
    written,        \* key -> time and value of its last set, until removed
    call_history,   \* RateLimiter.call_history
    calls_per_minute, \* RateLimiter.calls_per_minute
    lock,           \* RateLimiter.lock: 0 when free, else the caller holding it
    backend_calls,  \* the times of the backend calls that returned
    completed,      \* per tool and parameters: the cache store of its last call
    started,        \* the number of tool calls begun so far
    router          \* RouterIntegration and the threads of EnhancedOrchestrator

planVars == <<assignments, planPc, planOut>>
cacheVars == <<cache, ttl_seconds, cacheLog, written>>
limiterVars == <<call_history, calls_per_minute, lock, backend_calls>>
toolVars == <<completed, started>>
routerVars == <<router>>

vars == <<assignments, planPc, planOut, proc, now, cache, ttl_seconds, cacheLog,
          written, call_history, calls_per_minute, lock, backend_calls,
          completed, started, router>>

\* the threads that call into one orchestrator
Procs == {1, 2}

(***************************************************************************)
(* Helpers on sequences.                                                   *)
(***************************************************************************)
Range(s) == {s[i] : i \in 1..Len(s)}

SeqsUpTo(S, n) == UNION {[1..k -> S] : k \in 0..n}

\* the lists of at most n elements of S that name no element twice
DistinctSeqs(S, n) ==
    {s \in SeqsUpTo(S, n) : \A i, j \in 1..Len(s) : i # j => s[i] # s[j]}

\* a key a dict does not hold, an argument that was not given
NoField == "<absent>"
\* what the analyzer, mocked or real, may return
Values == {"r1", "r2"}
\* what the diagram generator, mocked or real, may return
DiagramValues == {"d1"}
\* what the backend function may return
BackendValues == {"doc"}
\* the worker or backend call raising instead of returning
Fail == "<raises>"

EmptyMap == [x \in {} |-> ""]

(***************************************************************************)
(* TaskScheduler.create_plan                                               *)
(***************************************************************************)
\* marks an assignment dict that has no 'id' key
NoId == "<no id>"
\* marks "no exception raised so far" in the depth-first walk
NoErr == "<no error>"

\* f"task_{i}", i counted from 0 as enumerate does
TaskId(i) == "task_" \o ToString(i)

\* lines 147-149: an assignment without an id gets task_<index>
AssignIds(as) ==
    [i \in 1..Len(as) |->
        IF as[i].id = NoId THEN [as[i] EXCEPT !.id = TaskId(i - 1)] ELSE as[i]]

\* position of the last assignment carrying this id (a dict keeps the last write)
LastIndexOf(as, id) ==
    CHOOSE i \in 1..Len(as) :
        /\ as[i].id = id
        /\ \A j \in (i + 1)..Len(as) : as[j].id # id

\* keys of dependency_graph in dict order: the order of first insertion
GraphKeys(as) ==
    LET F[i \in 0..Len(as)] ==
            IF i = 0 THEN <<>>
            ELSE IF as[i].id \in Range(F[i - 1]) THEN F[i - 1]
                 ELSE Append(F[i - 1], as[i].id)
    IN F[Len(as)]

\* dependency_graph.get(node, []) of lines 152-156 and 168
GraphDeps(as, node) ==
    IF \E i \in 1..Len(as) : as[i].id = node
    THEN as[LastIndexOf(as, node)].dependencies
    ELSE <<>>

RECURSIVE visit(_, _, _)
RECURSIVE visitDeps(_, _, _, _)

\* visit with the node put into the order before its dependencies are walked
visitPreOrder(as, node, st) ==
    IF st.err # NoErr THEN st
    ELSE IF node \in st.temp THEN [st EXCEPT !.err = node]
    ELSE IF node \notin st.visited THEN
        LET entered == [st EXCEPT !.temp = @ \cup {node},
                                  !.order = Append(@, node)]
            after == visitDeps(as, GraphDeps(as, node), 1, entered)
        IN IF after.err # NoErr THEN after
           ELSE [after EXCEPT !.temp = @ \ {node},
                              !.visited = @ \cup {node}]
    ELSE st

\* visit without the check of line 164: a node still in progress is passed over
visitNoCycleCheck(as, node, st) ==
    IF st.err # NoErr THEN st
    ELSE IF node \in st.temp THEN st
    ELSE IF node \notin st.visited THEN
        LET entered == [st EXCEPT !.temp = @ \cup {node}]
            after == visitDeps(as, GraphDeps(as, node), 1, entered)
        IN IF after.err # NoErr THEN after
           ELSE [after EXCEPT !.temp = @ \ {node},
                              !.visited = @ \cup {node},
                              !.order = Append(@, node)]
    ELSE st

\* visit without the test of line 166: a node already visited is walked and
\* put into the order again
visitRevisiting(as, node, st) ==
    IF st.err # NoErr THEN st
    ELSE IF node \in st.temp THEN [st EXCEPT !.err = node]
    ELSE LET entered == [st EXCEPT !.temp = @ \cup {node}]
             after == visitDeps(as, GraphDeps(as, node), 1, entered)
         IN IF after.err # NoErr THEN after
            ELSE [after EXCEPT !.temp = @ \ {node},
                               !.visited = @ \cup {node},
                               !.order = Append(@, node)]

\* the loop of line 168 over the dependencies of one node, from position k on
visitDeps(as, deps, k, st) ==
    IF k > Len(deps) \/ st.err # NoErr THEN st
    ELSE visitDeps(as, deps, k + 1, visit(as, deps[k], st))

\* lines 163-172; st holds the closure's visited, temp and order, and the node
\* named by a raised TaskDecompositionError
visit(as, node, st) ==
    IF st.err # NoErr THEN st
    ELSE IF node \in st.temp THEN [st EXCEPT !.err = node]
    ELSE IF node \notin st.visited THEN
        LET entered == [st EXCEPT !.temp = @ \cup {node}]
            after == visitDeps(as, GraphDeps(as, node), 1, entered)
        IN IF after.err # NoErr THEN after
           ELSE [after EXCEPT !.temp = @ \ {node},
                              !.visited = @ \cup {node},
                              !.order = Append(@, node)]
    ELSE st

RECURSIVE visitRoots(_, _, _, _)
\* lines 174-176: every key of the graph not yet visited is a root of the walk
visitRoots(as, keys, k, st) ==
    IF k > Len(keys) \/ st.err # NoErr THEN st
    ELSE IF keys[k] \notin st.visited
         THEN visitRoots(as, keys, k + 1, visit(as, keys[k], st))
         ELSE visitRoots(as, keys, k + 1, st)

\* the whole of create_plan: the plan, or the exception that leaves it
create_plan(input) ==
    LET as == AssignIds(input)
        st0 == [visited |-> {}, temp |-> {}, order |-> <<>>, err |-> NoErr]
        st == visitRoots(as, GraphKeys(as), 1, st0)
    IN IF st.err # NoErr
       THEN [status |-> "TaskDecompositionError", node |-> st.err,
             plan |-> <<>>, assignments |-> as]
       ELSE IF \E k \in 1..Len(st.order) :
                   \A i \in 1..Len(as) : as[i].id # st.order[k]
       THEN \* task_map[task_id] of line 180 on an id no assignment carries
            [status |-> "KeyError", node |-> NoErr,
             plan |-> <<>>, assignments |-> as]
       ELSE [status |-> "ok", node |-> NoErr,
             plan |-> [k \in 1..Len(st.order) |-> as[LastIndexOf(as, st.order[k])]],
             assignments |-> as]

(***************************************************************************)
(* Cache                                                                   *)
(***************************************************************************)
NoValue == [kind |-> "None", items |-> <<>>]

\* a cache with no entry
EmptyCache == [k \in {} |-> [timestamp |-> 0, value |-> NoValue]]

\* Cache.get with "<=" for "<": an entry is still served when its age is ttl
CacheGetInclusive(c, key, t, ttl) ==
    IF key \in DOMAIN c /\ t - c[key].timestamp <= ttl
    THEN [hit |-> TRUE, value |-> c[key].value]
    ELSE [hit |-> FALSE, value |-> NoValue]

\* Cache.get: (hit, value); it reads the dict and writes nothing
CacheGet(c, key, t, ttl) ==
    IF key \in DOMAIN c /\ t - c[key].timestamp < ttl
    THEN [hit |-> TRUE, value |-> c[key].value]
    ELSE [hit |-> FALSE, value |-> NoValue]

\* Cache.set: self.cache[key] = (time.time(), value)
CacheSet(c, key, v, t) ==
    [k \in DOMAIN c \cup {key} |->
        IF k = key THEN [timestamp |-> t, value |-> v] ELSE c[k]]

\* an invalidate that empties the dict when it finds the key
CacheInvalidateDropsAll(c, key) == IF key \in DOMAIN c THEN EmptyCache ELSE c

\* Cache.invalidate: del self.cache[key] when the key is there
CacheInvalidate(c, key) == [k \in DOMAIN c \ {key} |-> c[k]]

\* Cache.clear: self.cache = {}
CacheClear(c) == EmptyCache

NoGet == [key |-> NoField, at |-> 0, hit |-> FALSE, value |-> NoValue,
          stored |-> FALSE, storedAt |-> 0, storedValue |-> NoValue]

\* what a get was asked and answered, beside what the last set of that key
\* had written if no invalidate or clear has removed it since
Observed(key, t, got) ==
    [key |-> key, at |-> t, hit |-> got.hit, value |-> got.value,
     stored |-> key \in DOMAIN written,
     storedAt |-> IF key \in DOMAIN written THEN written[key].timestamp ELSE 0,
     storedValue |-> IF key \in DOMAIN written THEN written[key].value ELSE NoValue]

\* the operations of a Cache, each called on its own
CacheKeys == {"k1", "k2"}
CacheValues == {[kind |-> "text", items |-> <<v>>] : v \in Values}

CacheSetOp ==
    /\ \E k \in CacheKeys, v \in CacheValues :
            /\ cache' = CacheSet(cache, k, v, now)
            /\ written' = [x \in DOMAIN written \cup {k} |->
                              IF x = k THEN [timestamp |-> now, value |-> v]
                              ELSE written[x]]
    /\ UNCHANGED <<planVars, routerVars, toolVars, proc, now, ttl_seconds, cacheLog, limiterVars>>

\* a get that drops the entry it finds expired
CacheAfterGetEvicting(c, key, t, ttl) ==
    IF key \in DOMAIN c /\ ~(t - c[key].timestamp < ttl)
    THEN [k \in DOMAIN c \ {key} |-> c[k]]
    ELSE c

\* self.cache after Cache.get: no statement of get assigns to it or to one of
\* its entries
CacheAfterGet(c, key, t, ttl) == c

CacheGetOp ==
    /\ \E k \in CacheKeys :
            /\ cacheLog' = Observed(k, now, CacheGet(cache, k, now, ttl_seconds))
            /\ cache' = CacheAfterGet(cache, k, now, ttl_seconds)
    /\ UNCHANGED <<planVars, routerVars, toolVars, proc, now, ttl_seconds, written, limiterVars>>

\* the call of invalidate as its caller sees it: the key it passed, the
\* return, and the calls it has made so far counted modulo two
Invalidated(st, k) ==
    [st EXCEPT !.pc = "returned", !.tool = "invalidate", !.key = k, !.idx = 1 - @]

CacheInvalidateOp ==
    /\ \E k \in CacheKeys :
            /\ cache' = CacheInvalidate(cache, k)
            /\ written' = [x \in DOMAIN written \ {k} |-> written[x]]
            /\ proc' = [proc EXCEPT ![1] = Invalidated(@, k)]
    /\ UNCHANGED <<planVars, routerVars, toolVars, now, ttl_seconds, cacheLog, limiterVars>>

CacheClearOp ==
    /\ cache' = CacheClear(cache)
    /\ written' = EmptyCache
    /\ UNCHANGED <<planVars, routerVars, toolVars, proc, now, ttl_seconds, cacheLog, limiterVars>>

(***************************************************************************)
(* RateLimiter                                                             *)
(***************************************************************************)
\* the sliding window, in seconds
Window == 60
\* the longest sleep wait_if_needed accepts
MaxWait == 10
\* the buffer added to the computed delay
WaitBuffer == 1

\* [t for t in self.call_history if now - t < 60]
Pruned(history, t) == SelectSeq(history, LAMBDA x : t - x < Window)

SeqMin(s) == CHOOSE m \in Range(s) : \A x \in Range(s) : m <= x

\* the delay of wait_if_needed without its one-second buffer
WaitTimeNoBuffer(history, t) == Window - (t - SeqMin(history))

\* lines 116-120: 60 - (now - oldest_call) + 1
WaitTime(history, t) == Window - (t - SeqMin(history)) + WaitBuffer

\* can_make_call answering True also when the window is exactly full
CanMakeCallInclusive(history, t, limit) == Len(Pruned(history, t)) <= limit

\* can_make_call's answer: len(self.call_history) < self.calls_per_minute
CanMakeCall(history, t, limit) == Len(Pruned(history, t)) < limit

\* what wait_if_needed decides under the lock: "pass" (return at once),
\* "sleep" (time.sleep(wait) and return) or "raise"
WaitDecision(history, t, limit) ==
    LET kept == Pruned(history, t)
    IN IF Len(kept) >= limit
       THEN IF WaitTime(kept, t) > MaxWait
            THEN [outcome |-> "raise", wait |-> 0]
            ELSE [outcome |-> "sleep", wait |-> WaitTime(kept, t)]
       ELSE [outcome |-> "pass", wait |-> 0]

(***************************************************************************)
(* The clock                                                               *)
(***************************************************************************)
\* the instants at which the clock is sampled: they put a timestamp taken at
\* 0 at the ages 55, 60 and 61
Instants == {0, 55, 60, 61}

\* the instants at which a time.sleep in progress ends
WakeTimes == {proc[p].wakeAt : p \in {q \in Procs : proc[q].pc = "api_sleep"}}

\* time passes to the next instant; a caller in time.sleep is woken when its
\* sleep is over, so the clock does not step past the end of a sleep
Tick ==
    /\ \E t \in (Instants \cup WakeTimes) :
            /\ t > now
            /\ t <= MaxTime
            /\ \A u \in (Instants \cup WakeTimes) : u > now => t <= u
            /\ now' = t
    /\ UNCHANGED <<planVars, routerVars, toolVars, proc, cacheVars, limiterVars>>

\* max_retries, retry_interval (seconds) and health_check_interval (seconds)
\* of the RouterIntegration; requests.post raising RequestException stands
\* among the answers in place of a status code
RequestException == 0
StatusCodes == {200, 404, 500}
Answers == StatusCodes \cup {RequestException}

\* one call of register_capabilities: the attempts made and the seconds slept
\* so far, the answer to the last attempt, and how the call ended
NoCall == [attempt |-> 0, slept |-> 0, last |-> RequestException, outcome |-> "none"]

\* EnhancedOrchestrator after __init__ with its RouterIntegration: nothing
\* registered, no health thread, the stop event clear
NewRouter(enable) ==
    [enable |-> enable, is_registered |-> FALSE, stop_health_check |-> FALSE,
     main |-> "constructed", health |-> "none", remaining |-> 0,
     reg |-> [c \in {"main", "health"} |-> NoCall],
     reports |-> 0, reported |-> RequestException, failed |-> 0, ticks |-> 0,
     served |-> FALSE, start_failed |-> FALSE, joined |-> "none",
     unregistered |-> "none", unregister_posts |-> 0, late |-> 0]

\* the shared objects right after construction
SharedInit ==
    /\ now = 0
    /\ cache = EmptyCache
    /\ ttl_seconds = CacheTtl
    /\ cacheLog = NoGet
    /\ written = EmptyCache
    /\ call_history = <<>>
    /\ lock = 0
    /\ backend_calls = <<>>
    /\ completed = EmptyMap
    /\ started = 0

(***************************************************************************)
(* CodeDiagramOrchestrator.execute_worker_tasks                            *)
(***************************************************************************)
\* line 457: all(dep in worker_results for dep in dependencies)
DepsSatisfied(a, results) == Range(a.dependencies) \subseteq DOMAIN results

\* line 471: the subtask wires in an analysis that is already recorded
UsesAnalysis(a, results) ==
    /\ a.subtask.analysis_dependency # NoField
    /\ a.subtask.analysis_dependency \in DOMAIN results

\* line 473: the f-string holding the code context and the recorded analysis
EmbeddedQuery(a, results) ==
    [kind |-> "code_and_analysis",
     code |-> a.subtask.code_context,
     analysis |-> results[a.subtask.analysis_dependency]]

\* line 476: the subtask's own query, passed on unchanged
PlainQuery(a) ==
    [kind |-> "query", code |-> a.subtask.query, analysis |-> NoField]

\* the analysis is never embedded: the subtask's query is always used
InvocationIgnoringAnalysis(a, results) ==
    IF a.worker_type = "solid_analyzer" THEN
        IF a.subtask.action = "analyze_code"
        THEN [kind |-> "call", method |-> "analyze_code",
              input |-> [kind |-> "code", code |-> a.subtask.code,
                         analysis |-> a.subtask.principles]]
        ELSE [kind |-> "nothing", method |-> NoField, input |-> NoField]
    ELSE IF a.worker_type = "mermaid_generator" THEN
        IF a.subtask.action = "generate_diagram"
        THEN IF a.subtask.query # NoField
             THEN [kind |-> "call", method |-> "generate_diagram",
                   input |-> PlainQuery(a)]
             ELSE [kind |-> "raise", method |-> NoField, input |-> NoField]
        ELSE [kind |-> "nothing", method |-> NoField, input |-> NoField]
    ELSE [kind |-> "raise", method |-> NoField, input |-> NoField]

\* lines 463-479: what the try block does for one assignment: a call of a
\* worker method with its input, nothing at all (an action the branch does not
\* know), or an exception before any worker is called (KeyError on a missing
\* 'query', WorkerError on an unknown worker type)
Invocation(a, results) ==
    IF a.worker_type = "solid_analyzer" THEN
        IF a.subtask.action = "analyze_code"
        THEN [kind |-> "call", method |-> "analyze_code",
              input |-> [kind |-> "code", code |-> a.subtask.code,
                         analysis |-> a.subtask.principles]]
        ELSE [kind |-> "nothing", method |-> NoField, input |-> NoField]
    ELSE IF a.worker_type = "mermaid_generator" THEN
        IF a.subtask.action = "generate_diagram"
        THEN IF UsesAnalysis(a, results)
             THEN [kind |-> "call", method |-> "generate_diagram",
                   input |-> EmbeddedQuery(a, results)]
             ELSE IF a.subtask.query # NoField
             THEN [kind |-> "call", method |-> "generate_diagram",
                   input |-> PlainQuery(a)]
             ELSE [kind |-> "raise", method |-> NoField, input |-> NoField]
        ELSE [kind |-> "nothing", method |-> NoField, input |-> NoField]
    ELSE [kind |-> "raise", method |-> NoField, input |-> NoField]

NoError == [kind |-> "none", id |-> NoField]

\* what the wait_if_needed of the call in progress saw and decided, kept until
\* the backend function is called
NoWait == [at |-> 0, history |-> <<>>, outcome |-> "none", wait |-> 0]
NoAnswer == [at |-> 0, history |-> <<>>, asked |-> FALSE, answer |-> FALSE]
\* what a tool call found at its cache lookup about the last call that stored a
\* value for the same tool and parameters
NoPrior == [known |-> FALSE, age |-> 0, value |-> NoValue, live |-> FALSE]

IdleProc ==
    [pc |-> "idle", tool |-> "none", code |-> NoField, principles |-> NoField,
     kwargs |-> <<>>, key |-> NoField,
     plan |-> <<>>, idx |-> 0,
     given |-> EmptyMap, results |-> EmptyMap, log |-> <<>>,
     returned |-> EmptyMap, error |-> NoError,
     result |-> NoValue, hit |-> FALSE,
     waited |-> NoWait, wakeAt |-> 0, apiOut |-> NoField, can |-> NoAnswer,
     prior |-> NoPrior, events |-> <<>>]

\* events: what the _handle_api_call in progress has done so far, in order:
\* "wait_returned" or "wait_raised" for wait_if_needed, "call_returned" or
\* "call_raised" for the backend function, "record_call"

\* one worker call as the caller's log keeps it: the assignment, the method,
\* the input, the result map at the time of the call, and whether it raised
LogEntry(a, inv, results, out) ==
    [id |-> a.id, method |-> inv.method, input |-> inv.input,
     before |-> results, failed |-> (out = Fail)]

\* the exception swallowed: the loop goes on with the next assignment
WorkerFailedIgnored(st, a) ==
    [st EXCEPT !.idx = @ + 1]

\* lines 480-482: the except clause, raising WorkerError with the assignment id
WorkerFailed(st, a) ==
    [st EXCEPT !.pc = "raised", !.error = [kind |-> "WorkerError", id |-> a.id]]

\* the test answered no whatever the result map holds
AlreadyExecutedNever(a, results) == FALSE

\* line 446: if assignment_id in worker_results
AlreadyExecuted(a, results) == a.id \in DOMAIN results

\* lines 446-482: one turn of the loop over worker_assignments; out is what the
\* worker does if it is called
ExecTurn(st, out) ==
    LET a == st.plan[st.idx]
        inv == Invocation(a, st.results)
        next == [st EXCEPT !.idx = @ + 1]
    IN IF AlreadyExecuted(a, st.results) THEN next
       ELSE IF ~DepsSatisfied(a, st.results) THEN next
       ELSE IF inv.kind = "nothing" THEN next
       ELSE IF inv.kind = "raise" THEN WorkerFailed(st, a)
       ELSE LET logged ==
                    [st EXCEPT !.log = Append(@, LogEntry(a, inv, st.results, out))]
            IN IF out = Fail
               THEN WorkerFailed(logged, a)
               ELSE [logged EXCEPT !.idx = @ + 1,
                                   !.results = (a.id :> out) @@ @]

\* what a call of the worker of this type may return
WorkerReturns(worker_type) ==
    IF worker_type = "mermaid_generator" THEN DiagramValues ELSE Values

\* an exception leaving a tool takes the locals of the call with it
Unwound(st) ==
    IF st.pc = "raised" /\ st.tool # "direct"
    THEN [st EXCEPT !.plan = <<>>, !.idx = 0, !.results = EmptyMap, !.log = <<>>]
    ELSE st

\* a turn of the loop that puts the failure of its worker into the cache under
\* the key of the request before the exception leaves
ExecStepStoringFailure(p) ==
    /\ proc[p].pc = "exec"
    /\ proc[p].idx <= Len(proc[p].plan)
    /\ \E out \in WorkerReturns(proc[p].plan[proc[p].idx].worker_type) \cup {Fail} :
            /\ proc' = [proc EXCEPT ![p] = Unwound(ExecTurn(@, out))]
            /\ cache' = IF ExecTurn(proc[p], out).pc = "raised"
                        THEN CacheSet(cache, proc[p].key, NoValue, now)
                        ELSE cache
    /\ UNCHANGED <<planVars, routerVars, toolVars, now, ttl_seconds, cacheLog, written, limiterVars>>

ExecStep(p) ==
    /\ proc[p].pc = "exec"
    /\ proc[p].idx <= Len(proc[p].plan)
    /\ \E out \in WorkerReturns(proc[p].plan[proc[p].idx].worker_type) \cup {Fail} :
            proc' = [proc EXCEPT ![p] = Unwound(ExecTurn(@, out))]
    /\ UNCHANGED <<planVars, routerVars, toolVars, now, cacheVars, limiterVars>>

\* line 484: the loop is over and the result map goes back to the caller, a
\* tool (which goes on to synthesize_results) or a direct caller
ExecReturn(p) ==
    /\ proc[p].pc = "exec"
    /\ proc[p].idx > Len(proc[p].plan)
    /\ proc' = [proc EXCEPT ![p].pc = IF proc[p].tool = "direct"
                                      THEN "returned" ELSE "synth",
                            ![p].returned = proc[p].results]
    /\ UNCHANGED <<planVars, routerVars, toolVars, now, cacheVars, limiterVars>>

(***************************************************************************)
(* _handle_api_call: wait_if_needed, the backend call, record_call         *)
(***************************************************************************)
\* the caller is in no call and may begin one
AtRest(p) == proc[p].pc \in {"idle", "returned", "raised"}

TextValue(v) == [kind |-> "text", items |-> <<v>>]

\* the callers of _handle_api_call outside the orchestrator's tools: "api" is
\* a call on the orchestrator, the others calls on the mermaid and the solid
\* server
ServerCallers == {"api", "mermaid_api", "solid_api"}

\* the mermaid and solid servers wrapping the limiter's refusal as ApiError
ExceptionRaisedWrapped(st) ==
    IF st.tool = "create_documentation" THEN "SynthesisError"
    ELSE IF st.tool \in {"mermaid_api", "solid_api"} THEN "ApiError"
    ELSE "OrchestratorError"

\* the exception that leaves _handle_api_call. The except clause of the
\* orchestrator (lines 316-319) re-raises everything, the limiter's refusal
\* included, as OrchestratorError, and inside synthesize_results the except
\* clause of lines 536-538 turns that into SynthesisError. The mermaid and
\* solid servers (mermaid 616-633, solid 292-309) re-raise the limiter's
\* RateLimitError as it is and the client's anthropic.APIError as ApiError.
ExceptionRaised(st) ==
    IF st.tool = "create_documentation" THEN "SynthesisError"
    ELSE IF st.tool \in {"mermaid_api", "solid_api"}
    THEN IF st.events # <<>> /\ st.events[Len(st.events)] = "wait_raised"
         THEN "RateLimitError"
         ELSE "ApiError"
    ELSE "OrchestratorError"

ApiFailed(st) ==
    [st EXCEPT !.pc = "raised",
               !.error = [kind |-> ExceptionRaised(st), id |-> NoField]]

\* line 315, and line 531 when the call was made for create_documentation
ApiReturned(st) ==
    [st EXCEPT !.pc = IF st.tool = "create_documentation" THEN "store" ELSE "returned",
               !.result = TextValue(st.apiOut),
               !.apiOut = NoField]

\* a caller hands a function to _handle_api_call
ApiStart(p) ==
    /\ AtRest(p)
    /\ proc' = [proc EXCEPT ![p] =
                  [IdleProc EXCEPT !.pc = "api_wait",
                                   !.tool = IF proc[p].tool \in ServerCallers
                                            THEN proc[p].tool ELSE "api"]]
    /\ UNCHANGED <<planVars, routerVars, toolVars, now, cacheVars, limiterVars>>

\* RateLimiter.wait_if_needed up to its sleep: under the lock the history is
\* pruned, and the caller passes, raises, or goes to sleep holding the lock
WaitIfNeeded(p) ==
    /\ proc[p].pc = "api_wait"
    /\ lock = 0
    /\ LET d == WaitDecision(call_history, now, calls_per_minute)
           seen == [at |-> now, history |-> call_history,
                    outcome |-> d.outcome, wait |-> d.wait]
           st == [proc[p] EXCEPT !.waited = seen]
       IN /\ call_history' = Pruned(call_history, now)
          /\ proc' = [proc EXCEPT ![p] =
                        IF d.outcome = "pass"
                        THEN [st EXCEPT !.pc = "api_call",
                                        !.events = Append(@, "wait_returned")]
                        ELSE IF d.outcome = "sleep"
                        THEN [st EXCEPT !.pc = "api_sleep", !.wakeAt = now + d.wait]
                        ELSE ApiFailed([st EXCEPT !.events = Append(@, "wait_raised")])]
          /\ lock' = IF d.outcome = "sleep" THEN p ELSE 0
    /\ UNCHANGED <<planVars, routerVars, toolVars, now, cacheVars, calls_per_minute, backend_calls>>

\* time.sleep returns: the with block ends and the lock is released
WakeUp(p) ==
    /\ proc[p].pc = "api_sleep"
    /\ now >= proc[p].wakeAt
    /\ proc' = [proc EXCEPT ![p].pc = "api_call",
                            ![p].events = Append(@, "wait_returned")]
    /\ lock' = 0
    /\ UNCHANGED <<planVars, routerVars, toolVars, now, cacheVars, call_history, calls_per_minute,
                   backend_calls>>

\* line 309: result = func(*args, **kwargs); the backend answers or raises
BackendCall(p) ==
    /\ proc[p].pc = "api_call"
    /\ Len(backend_calls) < MaxBackendCalls
    /\ \E out \in BackendValues \cup {Fail} :
            /\ backend_calls' = IF out = Fail THEN backend_calls
                                ELSE Append(backend_calls, now)
            /\ proc' = [proc EXCEPT ![p] =
                          IF out = Fail
                          THEN ApiFailed([@ EXCEPT !.waited = NoWait,
                                                   !.events = Append(@, "call_raised")])
                          ELSE [@ EXCEPT !.pc = "api_record", !.apiOut = out,
                                         !.waited = NoWait,
                                         !.events = Append(@, "call_returned")]]
    /\ UNCHANGED <<planVars, routerVars, toolVars, now, cacheVars, call_history, calls_per_minute, lock>>

\* record_call executed twice for one backend call
RecordCallTwice(p) ==
    /\ proc[p].pc = "api_record"
    /\ lock = 0
    /\ call_history' = call_history \o <<now, now>>
    /\ proc' = [proc EXCEPT ![p] =
                  ApiReturned([@ EXCEPT !.events = @ \o <<"record_call", "record_call">>])]
    /\ UNCHANGED <<planVars, routerVars, toolVars, now, cacheVars, calls_per_minute, lock, backend_calls>>

\* RateLimiter.record_call, then the return of _handle_api_call
RecordCall(p) ==
    /\ proc[p].pc = "api_record"
    /\ lock = 0
    /\ call_history' = Append(call_history, now)
    /\ proc' = [proc EXCEPT ![p] =
                  ApiReturned([@ EXCEPT !.events = Append(@, "record_call")])]
    /\ UNCHANGED <<planVars, routerVars, toolVars, now, cacheVars, calls_per_minute, lock, backend_calls>>

\* RateLimiter.can_make_call of the mermaid and solid servers
CanMakeCallOp(p) ==
    /\ AtRest(p)
    /\ lock = 0
    /\ call_history' = Pruned(call_history, now)
    /\ proc' = [proc EXCEPT ![p].can =
                  [at |-> now, history |-> call_history, asked |-> TRUE,
                   answer |-> CanMakeCall(call_history, now, calls_per_minute)]]
    /\ UNCHANGED <<planVars, routerVars, toolVars, now, cacheVars, calls_per_minute, lock, backend_calls>>

(***************************************************************************)
(* The tools: analyze_and_visualize, generate_class_diagram,               *)
(* create_documentation, clear_cache                                       *)
(***************************************************************************)
Tools == {"analyze_and_visualize", "generate_class_diagram", "create_documentation"}

\* the code a caller passes: empty, whitespace only, or not blank
Codes == {"", " ", "c1"}

RECURSIVE strip(_)
\* code.strip(), as far as the check reads it: leading blanks removed, so that
\* the result is empty exactly when the string holds nothing but blanks
strip(code) ==
    IF Len(code) > 0 /\ SubSeq(code, 1, 1) = " "
    THEN strip(SubSeq(code, 2, Len(code)))
    ELSE code

\* the check without the strip: a string of blanks passes
CodeIsEmptyString(code) == code = ""

\* lines 553, 602, 650: not code or not code.strip()
CodeCannotBeEmpty(code) == IF code = "" THEN TRUE ELSE strip(code) = ""
\* the principles a caller of analyze_and_visualize passes
Principles == {"None"}

\* the keyword names the tools use, in the order sort_keys=True writes them
ParamNames == <<"code", "principles">>

RECURSIVE DumpSorted(_, _)
\* line 287: json.dumps(kwargs, sort_keys=True), from the k-th name on
DumpSorted(kwargs, k) ==
    IF k > Len(ParamNames) THEN ""
    ELSE (IF ParamNames[k] \in DOMAIN kwargs
          THEN ParamNames[k] \o "=" \o kwargs[ParamNames[k]] \o ";"
          ELSE "")
         \o DumpSorted(kwargs, k + 1)

\* lines 287-289: f"{prefix}:{md5 of the dumped kwargs}"; the digest is taken
\* to be one-to-one on the dumps that occur
generate_cache_key(prefix, kwargs) == prefix \o ":" \o DumpSorted(kwargs, 1)

\* the kwargs each tool hands to _generate_cache_key (lines 557, 606, 654)
ToolKwargs(tool, code, principles) ==
    IF tool = "analyze_and_visualize"
    THEN ("code" :> code) @@ ("principles" :> principles)
    ELSE ("code" :> code)

\* line 363: f"Create a class diagram for this code:\n\n{task['code']}"
ClassDiagramQuery(code) == "Create a class diagram for this code: " \o code

\* the read of a missing key answered as if the key held no value
KeyErrorIgnored(task) == FALSE

\* task['type'] (line 333) and, for a known type, task['code'] (lines 340,
\* 349, 362, 373, 383) of a dict without the key: KeyError
KeyErrorRaised(task) ==
    IF task.type = NoField THEN TRUE
    ELSE task.type \in Tools /\ task.code = NoField

\* lines 331-396: the predefined decompositions; every exception raised in
\* the body, the KeyError of a missing key and the TaskDecompositionError of
\* the else branch, leaves as TaskDecompositionError (lines 394-396)
decompose_task(task) ==
    IF KeyErrorRaised(task)
    THEN [status |-> "TaskDecompositionError", assignments |-> <<>>]
    ELSE IF task.type = "analyze_and_visualize" THEN
        [status |-> "ok",
         assignments |->
           <<[id |-> "analyze", worker_type |-> "solid_analyzer",
              subtask |-> [action |-> "analyze_code", code |-> task.code,
                           principles |-> task.principles,
                           code_context |-> NoField, query |-> NoField,
                           analysis_dependency |-> NoField],
              dependencies |-> <<>>],
             [id |-> "visualize", worker_type |-> "mermaid_generator",
              subtask |-> [action |-> "generate_diagram", code |-> NoField,
                           principles |-> NoField,
                           code_context |-> task.code, query |-> NoField,
                           analysis_dependency |-> "analyze"],
              dependencies |-> <<"analyze">>]>>]
    ELSE IF task.type = "generate_class_diagram" THEN
        [status |-> "ok",
         assignments |->
           <<[id |-> "generate_diagram", worker_type |-> "mermaid_generator",
              subtask |-> [action |-> "generate_diagram", code |-> NoField,
                           principles |-> NoField,
                           code_context |-> NoField,
                           query |-> ClassDiagramQuery(task.code),
                           analysis_dependency |-> NoField],
              dependencies |-> <<>>]>>]
    ELSE IF task.type = "create_documentation" THEN
        [status |-> "ok",
         assignments |->
           <<[id |-> "analyze", worker_type |-> "solid_analyzer",
              subtask |-> [action |-> "analyze_code", code |-> task.code,
                           principles |-> "None",
                           code_context |-> NoField, query |-> NoField,
                           analysis_dependency |-> NoField],
              dependencies |-> <<>>],
             [id |-> "generate_diagram", worker_type |-> "mermaid_generator",
              subtask |-> [action |-> "generate_diagram", code |-> NoField,
                           principles |-> NoField,
                           code_context |-> NoField,
                           query |-> ClassDiagramQuery(task.code),
                           analysis_dependency |-> NoField],
              dependencies |-> <<>>]>>]
    ELSE [status |-> "TaskDecompositionError", assignments |-> <<>>]

\* line 260: the keys of self.workers
RegisteredWorkers == {"solid_analyzer", "mermaid_generator"}

\* lines 408-428: the plan of create_plan with a worker for each assignment;
\* every exception, the scheduler's included, leaves as WorkerError
assign_workers(as) ==
    LET planned == create_plan(as)
    IN IF planned.status # "ok"
       THEN [status |-> "WorkerError", plan |-> <<>>]
       ELSE IF \E k \in 1..Len(planned.plan) :
                   planned.plan[k].worker_type \notin RegisteredWorkers
       THEN [status |-> "WorkerError", plan |-> <<>>]
       ELSE [status |-> "ok", plan |-> planned.plan]

\* line 194: list(worker_results.values()), in the dict's insertion order:
\* the results handed in, then the assignments in the order they ran
order_results(st) ==
    LET ran == SelectSeq(st.plan, LAMBDA a : a.id \in DOMAIN st.returned
                                            /\ a.id \notin DOMAIN st.given)
        old == IF st.given = EmptyMap THEN <<>>
               ELSE <<st.given[CHOOSE i \in DOMAIN st.given : TRUE]>>
    IN old \o [k \in 1..Len(ran) |-> st.returned[ran[k].id]]

\* a single result wrapped like several
combine_resultsWrapped(results) ==
    IF results = <<>> THEN NoValue
    ELSE [kind |-> "multi_result", items |-> results]

\* lines 212-223: ResultSynthesizer.combine_results
combine_results(results) ==
    IF results = <<>> THEN NoValue
    ELSE IF Len(results) = 1 THEN TextValue(results[1])
    ELSE [kind |-> "multi_result", items |-> results]

\* the analysis left out of the record of analyze_and_visualize
synthesisDiagramOnly(st) ==
    LET r == st.returned
    IN IF st.tool = "analyze_and_visualize" /\ {"analyze", "visualize"} \subseteq DOMAIN r
       THEN [via |-> "value", value |-> TextValue(r["visualize"])]
       ELSE IF st.tool = "generate_class_diagram" /\ "generate_diagram" \in DOMAIN r
       THEN [via |-> "value", value |-> TextValue(r["generate_diagram"])]
       ELSE IF st.tool = "create_documentation"
       THEN [via |-> "api", value |-> NoValue]
       ELSE [via |-> "value", value |-> combine_results(order_results(st))]

\* lines 497-534 of synthesize_results: the value it returns, or for
\* create_documentation the call of _handle_api_call that will produce it
synthesis(st) ==
    LET r == st.returned
    IN IF st.tool = "analyze_and_visualize" /\ {"analyze", "visualize"} \subseteq DOMAIN r
       THEN [via |-> "value",
             value |-> [kind |-> "analysis_and_diagram",
                        items |-> <<r["analyze"], r["visualize"]>>]]
       ELSE IF st.tool = "generate_class_diagram" /\ "generate_diagram" \in DOMAIN r
       THEN [via |-> "value", value |-> TextValue(r["generate_diagram"])]
       ELSE IF st.tool = "create_documentation"
       THEN [via |-> "api", value |-> NoValue]
       ELSE [via |-> "value", value |-> combine_results(order_results(st))]

\* synthesize_results as a tool calls it (lines 581, 629, 677), up to the value
\* it returns or up to the call of _handle_api_call
synthesize_results(st) ==
    LET s == synthesis(st)
        \* the worker results are not read again once the value is built
        done == [st EXCEPT !.plan = <<>>, !.idx = 0, !.results = EmptyMap,
                           !.log = <<>>, !.returned = EmptyMap]
    IN IF s.via = "api"
       THEN [done EXCEPT !.pc = "api_wait"]
       ELSE [done EXCEPT !.pc = "store", !.result = s.value]

\* synthesize_results called on its own with a result map and a task whose
\* type needs no backend call: the value goes back to the caller
SynthesizeDirect(p) ==
    /\ proc[p].pc = "synth_direct"
    /\ proc' = [proc EXCEPT ![p].pc = "returned",
                            ![p].result = synthesis(proc[p]).value]
    /\ UNCHANGED <<planVars, routerVars, toolVars, now, cacheVars, limiterVars>>

\* the call a tool is making, by its name and parameters
Signature(tool, code, principles) ==
    [tool |-> tool, code |-> code,
     principles |-> IF tool = "analyze_and_visualize" THEN principles ELSE NoField]

\* the last store of a call with this signature and its age, as the cache
\* lookup of a new call at time t finds it
Prior(sig, t) ==
    IF sig \in DOMAIN completed
    THEN [known |-> TRUE, age |-> t - completed[sig].timestamp,
          value |-> completed[sig].value, live |-> completed[sig].live]
    ELSE NoPrior

\* a tool is called: the check of its code, the cache lookup and, on a miss,
\* decompose_task and assign_workers (lines 553-575, 602-623, 650-671)
ToolCall(p) ==
    /\ AtRest(p)
    /\ started < MaxToolCalls
    /\ started' = started + 1
    /\ \E tool \in Tools, code \in Codes, principles \in Principles :
        LET key == generate_cache_key(tool, ToolKwargs(tool, code, principles))
            got == CacheGet(cache, key, now, ttl_seconds)
            task == [type |-> tool, code |-> code, principles |-> principles]
            dec == decompose_task(task)
            asg == assign_workers(dec.assignments)
            call == [IdleProc EXCEPT !.tool = tool, !.code = code, !.key = key,
                                     !.principles = principles,
                                     !.prior = Prior(Signature(tool, code, principles), now)]
            raised(kind) == [call EXCEPT !.pc = "raised",
                                         !.error = [kind |-> kind, id |-> NoField]]
        IN proc' = [proc EXCEPT ![p] =
                      IF CodeCannotBeEmpty(code)
                      THEN [raised("ValueError") EXCEPT !.prior = NoPrior, !.key = NoField]
                      ELSE IF got.hit
                      THEN [call EXCEPT !.pc = "returned", !.hit = TRUE,
                                        !.result = got.value]
                      ELSE IF dec.status # "ok" THEN raised(dec.status)
                      ELSE IF asg.status # "ok" THEN raised(asg.status)
                      ELSE [call EXCEPT !.pc = "exec", !.plan = asg.plan, !.idx = 1]]
    /\ UNCHANGED <<planVars, routerVars, completed, now, cacheVars, limiterVars>>

\* synthesize_results, called with the map execute_worker_tasks returned
Synthesize(p) ==
    /\ proc[p].pc = "synth"
    /\ proc' = [proc EXCEPT ![p] = synthesize_results(@)]
    /\ UNCHANGED <<planVars, routerVars, toolVars, now, cacheVars, limiterVars>>

\* the tool returning its result without storing it in the cache
StoreNothing(p) ==
    /\ proc[p].pc = "store"
    /\ LET st == proc[p]
           sig == Signature(st.tool, st.code, st.principles)
       IN completed' = (sig :> [timestamp |-> now, value |-> st.result,
                                live |-> TRUE]) @@ completed
    /\ proc' = [proc EXCEPT ![p].pc = "returned"]
    /\ UNCHANGED <<planVars, routerVars, started, now, cacheVars, limiterVars>>

\* the tool keeping the entry another call has stored under its key
StoreIfAbsent(p) ==
    /\ proc[p].pc = "store"
    /\ LET st == proc[p]
           sig == Signature(st.tool, st.code, st.principles)
       IN /\ cache' = IF st.key \in DOMAIN cache THEN cache
                      ELSE CacheSet(cache, st.key, st.result, now)
          /\ completed' = (sig :> [timestamp |-> now, value |-> st.result,
                                   live |-> TRUE]) @@ completed
    /\ proc' = [proc EXCEPT ![p].pc = "returned"]
    /\ UNCHANGED <<planVars, routerVars, started, now, ttl_seconds, cacheLog, written, limiterVars>>

\* self.cache.set(cache_key, result) and the return of the tool
Store(p) ==
    /\ proc[p].pc = "store"
    /\ LET st == proc[p]
           sig == Signature(st.tool, st.code, st.principles)
       IN /\ cache' = CacheSet(cache, st.key, st.result, now)
          /\ completed' = (sig :> [timestamp |-> now, value |-> st.result,
                                   live |-> TRUE]) @@ completed
    /\ proc' = [proc EXCEPT ![p].pc = "returned"]
    /\ UNCHANGED <<planVars, routerVars, started, now, ttl_seconds, cacheLog, written, limiterVars>>

\* the clear_cache tool: self.cache.clear()
ClearCache ==
    /\ cache' = CacheClear(cache)
    /\ completed' = [s \in DOMAIN completed |-> [completed[s] EXCEPT !.live = FALSE]]
    /\ UNCHANGED <<planVars, routerVars, started, proc, now, ttl_seconds, cacheLog, written,
                   limiterVars>>

(***************************************************************************)
(* Specification of create_plan over every bounded list of assignments.    *)
(***************************************************************************)
\* ids a caller writes; "task_1" is one that create_plan may also generate
ExplicitIds == {"a", "b", TaskId(1)}
\* ids a dependency list may name
DepIds == {"a", "b"}

PlanInputs ==
    SeqsUpTo([id : ExplicitIds \cup {NoId},
              dependencies : DistinctSeqs(DepIds, MaxDeps)], MaxTasks)

NoPlan == [status |-> "none", node |-> NoErr, plan |-> <<>>, assignments |-> <<>>]

InitPlan ==
    /\ assignments \in PlanInputs
    /\ planPc = "pending"
    /\ planOut = NoPlan
    /\ proc = [p \in Procs |-> IdleProc]
    /\ SharedInit
    /\ calls_per_minute = CallsPerMinute
    /\ router = NewRouter(TRUE)

CreatePlan ==
    /\ planPc = "pending"
    /\ planPc' = "done"
    /\ planOut' = create_plan(assignments)
    /\ UNCHANGED <<assignments, routerVars, toolVars, proc, now, cacheVars, limiterVars>>

NextPlan == CreatePlan

SpecPlan == InitPlan /\ [][NextPlan]_vars

(***************************************************************************)
(* Specification of execute_worker_tasks called with every bounded dict of *)
(* worker assignments and every bounded results_so_far.                    *)
(***************************************************************************)
AssignmentIds == {"analyze", "visualize", "generate_diagram"}

\* the subtask dicts: those decompose_task builds, the one of the unit test,
\* and ones with an action or worker type the loop does not know
Subtasks ==
    [action : {"analyze_code", "generate_diagram", "other"},
     code : {"code"}, principles : {"None"},
     code_context : {"code"},
     query : {NoField, "query"},
     analysis_dependency : {NoField, "analyze"}]

WorkerTypes == {"solid_analyzer", "mermaid_generator", "unknown"}

\* a subtask as its worker type reads it: fields the branch never reads are
\* kept at one value
SubtasksOf(w) ==
    IF w = "solid_analyzer"
    THEN {s \in Subtasks : /\ s.action \in {"analyze_code", "other"}
                           /\ s.query = NoField
                           /\ s.analysis_dependency = NoField}
    ELSE IF w = "mermaid_generator"
    THEN {s \in Subtasks : /\ s.action \in {"generate_diagram", "other"}
                           /\ (s.action = "other" =>
                                 s.query = "query" /\ s.analysis_dependency = NoField)}
    ELSE {s \in Subtasks : /\ s.action = "other"
                           /\ s.query = NoField
                           /\ s.analysis_dependency = NoField}

WorkerAssignments ==
    UNION {[id : {i}, worker_type : {w}, subtask : SubtasksOf(w),
            dependencies : {<<>>, <<"analyze">>}] :
           i \in AssignmentIds, w \in WorkerTypes}

\* a dict has one entry per key: the ids of a worker_assignments are distinct
ExecInputs ==
    {d \in SeqsUpTo(WorkerAssignments, MaxAssignments) :
        \A i, j \in 1..Len(d) : i # j => d[i].id # d[j].id}

\* results_so_far: nothing, or one assignment executed earlier
ResultsSoFar ==
    {EmptyMap} \cup {(i :> "old") : i \in AssignmentIds}

InitExec ==
    /\ assignments = <<>>
    /\ planPc = "unused"
    /\ planOut = NoPlan
    /\ SharedInit
    /\ calls_per_minute = CallsPerMinute
    /\ router = NewRouter(TRUE)
    /\ \E d \in ExecInputs, r \in ResultsSoFar :
            proc = [p \in Procs |->
                       IF p = 1
                       THEN [IdleProc EXCEPT !.pc = "exec", !.tool = "direct",
                                             !.plan = d, !.idx = 1,
                                             !.given = r, !.results = r]
                       ELSE IdleProc]

NextExec == ExecStep(1) \/ ExecReturn(1)

SpecExec == InitExec /\ [][NextExec]_vars

(***************************************************************************)
(* Specification of one Cache whose operations are called in any order as  *)
(* time passes.                                                            *)
(***************************************************************************)
InitCache ==
    /\ assignments = <<>>
    /\ planPc = "unused"
    /\ planOut = NoPlan
    /\ proc = [p \in Procs |-> IdleProc]
    /\ SharedInit
    /\ calls_per_minute = CallsPerMinute
    /\ router = NewRouter(TRUE)

NextCache ==
    \/ CacheSetOp
    \/ CacheGetOp
    \/ CacheInvalidateOp
    \/ CacheClearOp
    \/ Tick

SpecCache == InitCache /\ [][NextCache]_vars

(***************************************************************************)
(* Specification of one RateLimiter shared by concurrent callers of        *)
(* _handle_api_call.                                                       *)
(***************************************************************************)
InitLimiter ==
    /\ assignments = <<>>
    /\ planPc = "unused"
    /\ planOut = NoPlan
    /\ proc = [p \in Procs |-> IdleProc]
    /\ SharedInit
    /\ calls_per_minute = CallsPerMinute
    /\ router = NewRouter(TRUE)

NextLimiter ==
    \/ \E p \in Procs :
            \/ ApiStart(p)
            \/ WaitIfNeeded(p)
            \/ WakeUp(p)
            \/ BackendCall(p)
            \/ RecordCall(p)
            \/ CanMakeCallOp(p)
    \/ Tick

SpecLimiter == InitLimiter /\ [][NextLimiter]_vars

(***************************************************************************)
(* Specification of one Cache used by concurrent callers, its operations   *)
(* taken statement by statement: the class takes no lock.                  *)
(***************************************************************************)
\* Cache.get, line 63 (mermaid: line 100): if key in self.cache
GetCheck(p) ==
    /\ AtRest(p)
    /\ \E k \in CacheKeys :
            proc' = [proc EXCEPT ![p] =
                        IF k \in DOMAIN cache
                        THEN [IdleProc EXCEPT !.pc = "get_read", !.tool = "get", !.key = k]
                        ELSE [IdleProc EXCEPT !.pc = "returned", !.tool = "get", !.key = k]]
    /\ UNCHANGED <<planVars, routerVars, toolVars, now, cacheVars, limiterVars>>

\* Cache.get, lines 64-71: timestamp, value = self.cache[key], a KeyError when
\* the entry is gone by now, then the comparison with ttl_seconds
GetRead(p) ==
    /\ proc[p].pc = "get_read"
    /\ LET st == proc[p]
           got == CacheGet(cache, st.key, now, ttl_seconds)
       IN proc' = [proc EXCEPT ![p] =
                     IF st.key \in DOMAIN cache
                     THEN [st EXCEPT !.pc = "returned", !.hit = got.hit,
                                     !.result = got.value]
                     ELSE [st EXCEPT !.pc = "raised",
                                     !.error = [kind |-> "KeyError", id |-> st.key]]]
    /\ UNCHANGED <<planVars, routerVars, toolVars, now, cacheVars, limiterVars>>

\* Cache.invalidate of the mermaid and solid servers, line 125: if key in self.cache
InvalidateCheck(p) ==
    /\ AtRest(p)
    /\ \E k \in CacheKeys :
            proc' = [proc EXCEPT ![p] =
                        IF k \in DOMAIN cache
                        THEN [IdleProc EXCEPT !.pc = "inv_del", !.tool = "invalidate",
                                              !.key = k]
                        ELSE [IdleProc EXCEPT !.pc = "returned", !.tool = "invalidate",
                                              !.key = k]]
    /\ UNCHANGED <<planVars, routerVars, toolVars, now, cacheVars, limiterVars>>

\* Cache.invalidate, line 126: del self.cache[key], a KeyError when the entry
\* is gone by now
InvalidateDel(p) ==
    /\ proc[p].pc = "inv_del"
    /\ LET st == proc[p]
       IN IF st.key \in DOMAIN cache
          THEN /\ cache' = CacheInvalidate(cache, st.key)
               /\ written' = [x \in DOMAIN written \ {st.key} |-> written[x]]
               /\ proc' = [proc EXCEPT ![p].pc = "returned"]
          ELSE /\ UNCHANGED <<cache, written>>
               /\ proc' = [proc EXCEPT ![p].pc = "raised",
                                       ![p].error = [kind |-> "KeyError", id |-> st.key]]
    /\ UNCHANGED <<planVars, routerVars, toolVars, now, ttl_seconds, cacheLog, limiterVars>>

InitCacheRace ==
    /\ assignments = <<>>
    /\ planPc = "unused"
    /\ planOut = NoPlan
    /\ proc = [p \in Procs |-> IdleProc]
    /\ SharedInit
    /\ calls_per_minute = CallsPerMinute
    /\ router = NewRouter(TRUE)

NextCacheRace ==
    \/ \E p \in Procs :
            \/ GetCheck(p)
            \/ GetRead(p)
            \/ InvalidateCheck(p)
            \/ InvalidateDel(p)
    \/ CacheSetOp
    \/ CacheClearOp
    \/ Tick

SpecCacheRace == InitCacheRace /\ [][NextCacheRace]_vars

(***************************************************************************)
(* Specification of synthesize_results called with every bounded result    *)
(* map and a task of type analyze_and_visualize or generate_class_diagram. *)
(***************************************************************************)
\* the result maps handed in, as the list of their items in dict order
ResultItems ==
    {d \in SeqsUpTo([id : AssignmentIds, value : Values], MaxResults) :
        \A i, j \in 1..Len(d) : i # j => d[i].id # d[j].id}

ItemsAsMap(d) == [x \in {d[i].id : i \in 1..Len(d)} |->
                    d[CHOOSE i \in 1..Len(d) : d[i].id = x].value]

InitSynth ==
    /\ assignments = <<>>
    /\ planPc = "unused"
    /\ planOut = NoPlan
    /\ SharedInit
    /\ calls_per_minute = CallsPerMinute
    /\ router = NewRouter(TRUE)
    /\ \E d \in ResultItems, type \in {"analyze_and_visualize", "generate_class_diagram"} :
            proc = [p \in Procs |->
                       IF p = 1
                       THEN [IdleProc EXCEPT !.pc = "synth_direct", !.tool = type,
                                             !.plan = d, !.returned = ItemsAsMap(d)]
                       ELSE IdleProc]

NextSynth == SynthesizeDirect(1)

SpecSynth == InitSynth /\ [][NextSynth]_vars

(***************************************************************************)
(* Specification of assign_workers called with every bounded list of       *)
(* assignments.                                                            *)
(***************************************************************************)
AssignInputs ==
    SeqsUpTo([id : ExplicitIds \cup {NoId},
              worker_type : {"solid_analyzer", "unknown"},
              dependencies : DistinctSeqs(DepIds, MaxDeps)], MaxAssigned)

InitAssign ==
    /\ assignments \in AssignInputs
    /\ planPc = "pending"
    /\ planOut = NoPlan
    /\ proc = [p \in Procs |-> IdleProc]
    /\ SharedInit
    /\ calls_per_minute = CallsPerMinute
    /\ router = NewRouter(TRUE)

\* assign_workers: what it returns or raises; it calls no worker
AssignWorkers ==
    /\ planPc = "pending"
    /\ planPc' = "assigned"
    /\ planOut' = [status |-> assign_workers(assignments).status,
                   node |-> NoErr,
                   plan |-> assign_workers(assignments).plan,
                   assignments |-> AssignIds(assignments)]
    /\ UNCHANGED <<assignments, routerVars, toolVars, proc, now, cacheVars, limiterVars>>

NextAssign == AssignWorkers

SpecAssign == InitAssign /\ [][NextAssign]_vars

(***************************************************************************)
(* RouterIntegration and the run / shutdown of EnhancedOrchestrator        *)
(***************************************************************************)
\* the thread making a call: the main thread or the health check thread
Callers == {"main", "health"}

\* where a thread stands
At(r, c) == IF c = "main" THEN r.main ELSE r.health

Goto(r, c, pc) == IF c = "main" THEN [r EXCEPT !.main = pc] ELSE [r EXCEPT !.health = pc]

\* the health check loop goes to its wait of health_check_interval seconds
ToWait(r) == [r EXCEPT !.health = "wait", !.remaining = HealthCheckInterval]

\* register_capabilities is entered
EnterRegister(r, c) ==
    Goto([r EXCEPT !.reg[c] = [NoCall EXCEPT !.outcome = "running"]], c, "register")

\* register_capabilities returned. To start(): start_health_check finds no
\* thread, clears the stop event and starts the thread, and run goes on to
\* mcp.run(). To _report_health: the loop goes on to its wait.
Registered(r, c) ==
    IF c = "main"
    THEN [r EXCEPT !.main = "serving", !.served = TRUE,
                   !.stop_health_check = FALSE, !.health = "loop"]
    ELSE ToWait(r)

\* CapabilityRegistrationError leaves start() and ends run
StartFailureEndsRun(r, c) ==
    IF c = "main"
    THEN [r EXCEPT !.main = "exited", !.start_failed = TRUE]
    ELSE ToWait(r)

\* CapabilityRegistrationError leaves register_capabilities. Out of start(),
\* run catches it, logs and goes on to mcp.run(); out of _report_health, the
\* loop catches it, logs and goes on to its wait.
RegistrationFailed(r, c) ==
    IF c = "main"
    THEN [r EXCEPT !.main = "serving", !.served = TRUE, !.start_failed = TRUE]
    ELSE ToWait(r)

\* a sleep after every failed attempt, the last one too
RetryAlways(attempt) == TRUE

\* if attempt < self.max_retries - 1
RetryPending(attempt) == attempt < MaxRetries - 1

\* one turn of the loop of register_capabilities: a request and what follows
\* its answer, up to the sleep, the return or the raise
RegisterAttempt(c) ==
    /\ At(router, c) = "register"
    /\ router.main # "exited"
    /\ LET call == router.reg[c]
           raised == [router EXCEPT !.reg[c].outcome = "raised"]
       IN  IF call.attempt >= MaxRetries
           THEN router' = RegistrationFailed(raised, c)
           ELSE \E answer \in Answers :
                   LET made == [call EXCEPT !.attempt = @ + 1, !.last = answer] IN
                   router' =
                     IF answer = 200
                     THEN Registered([router EXCEPT
                                        !.is_registered = TRUE,
                                        !.reg[c] = [made EXCEPT !.outcome = "returned"]], c)
                     ELSE IF RetryPending(call.attempt)
                          THEN Goto([router EXCEPT !.reg[c] = made], c, "retry_sleep")
                          ELSE RegistrationFailed(
                                  [router EXCEPT !.reg[c] = [made EXCEPT !.outcome = "raised"]], c)
    /\ UNCHANGED <<planVars, toolVars, proc, now, cacheVars, limiterVars>>

\* time.sleep(self.retry_interval) is over
RetrySleep(c) ==
    /\ At(router, c) = "retry_sleep"
    /\ router.main # "exited"
    /\ router' = Goto([router EXCEPT !.reg[c].slept = @ + RetryInterval], c, "register")
    /\ UNCHANGED <<planVars, toolVars, proc, now, cacheVars, limiterVars>>

\* EnhancedOrchestrator.run up to router_integration.start(), or to mcp.run()
\* when the integration is disabled
Run ==
    /\ router.main = "constructed"
    /\ router' = IF router.enable
                 THEN EnterRegister(router, "main")
                 ELSE [router EXCEPT !.main = "serving", !.served = TRUE]
    /\ UNCHANGED <<planVars, toolVars, proc, now, cacheVars, limiterVars>>

\* while not self.stop_health_check.is_set(); a turn that would send a report
\* beyond MaxReports is not taken
HealthCheck ==
    /\ router.health = "loop"
    /\ router.main # "exited"
    /\ IF router.stop_health_check THEN TRUE ELSE router.reports < MaxReports
    /\ router' = IF router.stop_health_check
                 THEN [router EXCEPT !.health = "done"]
                 ELSE [router EXCEPT !.health = "report"]
    /\ UNCHANGED <<planVars, toolVars, proc, now, cacheVars, limiterVars>>

\* the answer 404 makes _report_health call register_capabilities
NeedsRegistration(answer, is_registered) == answer = 404 /\ ~is_registered

\* _report_health: the request and what follows its answer
ReportHealth ==
    /\ router.health = "report"
    /\ router.main # "exited"
    /\ router.reports < MaxReports
    /\ \E answer \in Answers :
          LET sent == [router EXCEPT !.reports = @ + 1, !.ticks = 0,
                                     !.reported = answer,
                                     !.failed = IF answer = 200 THEN @ ELSE @ + 1]
          IN  router' = IF NeedsRegistration(answer, router.is_registered)
                        THEN EnterRegister(sent, "health")
                        ELSE ToWait(sent)
    /\ UNCHANGED <<planVars, toolVars, proc, now, cacheVars, limiterVars>>

\* the wait of the loop ends at once
WaitOverAtOnce(r) == TRUE

\* the wait of the loop runs its full range whatever the stop event says
WaitOverIgnoringStop(r) == ~(r.remaining > 0)

\* for _ in range(self.health_check_interval): if stop is set: break
WaitOver(r) == ~(r.remaining > 0 /\ ~r.stop_health_check)

\* one turn of the wait of the health check loop up to its time.sleep(1): the
\* range is used up or the stop event is found set, and the wait ends, or the
\* thread goes on to sleep
HealthWait ==
    /\ router.health = "wait"
    /\ router.main # "exited"
    /\ router' = IF WaitOver(router)
                 THEN [router EXCEPT !.health = "loop"]
                 ELSE [router EXCEPT !.health = "sleep"]
    /\ UNCHANGED <<planVars, toolVars, proc, now, cacheVars, limiterVars>>

\* time.sleep(1) of the wait, begun after the test of the stop event; late
\* counts the sleeps begun with the event already set
HealthSleep ==
    /\ router.health = "sleep"
    /\ router.main # "exited"
    /\ router' = [router EXCEPT !.health = "wait", !.remaining = @ - 1,
                                !.ticks = @ + 1,
                                !.late = IF router.stop_health_check THEN @ + 1 ELSE @]
    /\ UNCHANGED <<planVars, toolVars, proc, now, cacheVars, limiterVars>>

\* SIGINT or SIGTERM: handle_shutdown, shutdown, and stop up to the join, or
\* up to unregister_capabilities when there is no thread; shutdown returns at
\* once when the integration is disabled
Shutdown ==
    /\ router.main \in {"register", "retry_sleep", "serving"}
    /\ router' = IF router.enable
                 THEN IF router.health # "none"
                      THEN [router EXCEPT !.stop_health_check = TRUE, !.main = "join"]
                      ELSE [router EXCEPT !.main = "unregister"]
                 ELSE [router EXCEPT !.main = "stopped"]
    /\ UNCHANGED <<planVars, toolVars, proc, now, cacheVars, limiterVars>>

\* self.health_check_thread.join(timeout=5): the thread is over, or the five
\* seconds pass while it is in a request (timeout 5 or 10) or in a sleep of
\* retry_interval
Join ==
    /\ router.main = "join"
    /\ IF router.health = "done"
       THEN router' = [router EXCEPT !.main = "unregister", !.joined = "done"]
       ELSE /\ router.health \in {"report", "register", "retry_sleep"}
            /\ router' = [router EXCEPT !.main = "unregister", !.joined = "timeout"]
    /\ UNCHANGED <<planVars, toolVars, proc, now, cacheVars, limiterVars>>

\* a failed unregistration marks the instance unregistered
UnregisteredAnyway(r, answer) ==
    [r EXCEPT !.is_registered = FALSE, !.main = "stopped",
              !.unregister_posts = @ + 1,
              !.unregistered = IF answer = 200 THEN "ok" ELSE "failed"]

\* unregister_capabilities after the answer to its request, and the return
\* of stop
Unregistered(r, answer) ==
    IF answer = 200
    THEN [r EXCEPT !.is_registered = FALSE, !.main = "stopped",
                   !.unregister_posts = @ + 1, !.unregistered = "ok"]
    ELSE [r EXCEPT !.main = "stopped",
                   !.unregister_posts = @ + 1, !.unregistered = "failed"]

\* unregister_capabilities, and the return of stop
Unregister ==
    /\ router.main = "unregister"
    /\ IF ~router.is_registered
       THEN router' = [router EXCEPT !.main = "stopped", !.unregistered = "skipped"]
       ELSE \E answer \in Answers : router' = Unregistered(router, answer)
    /\ UNCHANGED <<planVars, toolVars, proc, now, cacheVars, limiterVars>>

\* handle_shutdown after shutdown returned: sys.exit(0) ends the process and
\* its daemon thread with it
Exit ==
    /\ router.main = "stopped"
    /\ router' = [router EXCEPT !.main = "exited"]
    /\ UNCHANGED <<planVars, toolVars, proc, now, cacheVars, limiterVars>>

(***************************************************************************)
(* Specification of one EnhancedOrchestrator from run to shutdown: its     *)
(* main thread and the health check thread of its RouterIntegration, the   *)
(* router answering every request in any way.                              *)
(***************************************************************************)
InitRouter ==
    /\ assignments = <<>>
    /\ planPc = "unused"
    /\ planOut = NoPlan
    /\ proc = [p \in Procs |-> IdleProc]
    /\ SharedInit
    /\ calls_per_minute = CallsPerMinute
    /\ \E enable \in BOOLEAN : router = NewRouter(enable)

NextRouter ==
    \/ Run
    \/ \E c \in Callers : RegisterAttempt(c)
    \/ \E c \in Callers : RetrySleep(c)
    \/ HealthCheck
    \/ ReportHealth
    \/ HealthWait
    \/ HealthSleep
    \/ Shutdown
    \/ Join
    \/ Unregister
    \/ Exit

SpecRouter == InitRouter /\ [][NextRouter]_vars

\* the health check thread keeps running while the process lives: its
\* requests end by their answer or their timeout, and its sleeps end
HealthThreadRuns ==
    /\ WF_vars(HealthCheck)
    /\ WF_vars(ReportHealth)
    /\ WF_vars(HealthWait)
    /\ WF_vars(HealthSleep)
    /\ WF_vars(RegisterAttempt("health"))
    /\ WF_vars(RetrySleep("health"))

SpecRouterLive == SpecRouter /\ HealthThreadRuns

(***************************************************************************)
(* Specification of one RouterIntegration whose start, start_health_check  *)
(* and stop are called one after another in any order by one caller, with  *)
(* every health check thread it has started running beside the caller.     *)
(***************************************************************************)
\* RouterIntegration after __init__ (lines 75-77). threads holds where each
\* thread started so far stands, health_check_thread the place of the one
\* the attribute refers to (0 for None), main the statement the caller is
\* at, calls the calls made so far, and checked how the last
\* start_health_check went and what the stop event was when it returned
NewIntegration ==
    [is_registered |-> FALSE, stop_health_check |-> FALSE,
     health_check_thread |-> 0, threads |-> <<>>,
     main |-> "idle", calls |-> 0,
     checked |-> [how |-> "none", stop_set |-> FALSE, count |-> 0]]

\* Thread.is_alive(): the thread has been started and its loop is not over
is_alive(r, i) == r.threads[i] # "done"

\* the threads of the instance that are alive
AliveThreads(r) == {i \in 1..Len(r.threads) : is_alive(r, i)}

\* the return of start_health_check, as the caller sees it
Checked(r, how) ==
    [r EXCEPT !.checked = [how |-> how, stop_set |-> r.stop_health_check,
                           count |-> 1 - @.count]]

\* lines 168-174: the stop event cleared, a thread made and started
StartThread(r) ==
    Checked([r EXCEPT !.stop_health_check = FALSE,
                      !.threads = Append(@, "loop"),
                      !.health_check_thread = Len(r.threads) + 1], "started")

\* start_health_check without the test of lines 166-167
start_health_checkAlways(r) == StartThread(r)

\* lines 164-175: nothing is done when the thread of the attribute is alive
start_health_check(r) ==
    IF r.health_check_thread # 0 /\ is_alive(r, r.health_check_thread)
    THEN Checked(r, "alive")
    ELSE StartThread(r)

\* the caller is between two calls and may make one more
MayCall == router.main = "idle" /\ router.calls < MaxApiCalls

\* start() is called: register_capabilities is entered
CallStart ==
    /\ MayCall
    /\ router' = [router EXCEPT !.main = "registering", !.calls = @ + 1]
    /\ UNCHANGED <<planVars, toolVars, proc, now, cacheVars, limiterVars>>

\* lines 79-82: register_capabilities returns, registered, and
\* start_health_check follows; or it raises CapabilityRegistrationError after
\* its last attempt and start() ends there
StartRegisters ==
    /\ router.main = "registering"
    /\ \E registered \in BOOLEAN :
          router' = IF registered
                    THEN start_health_check([router EXCEPT !.is_registered = TRUE,
                                                           !.main = "idle"])
                    ELSE [router EXCEPT !.main = "idle"]
    /\ UNCHANGED <<planVars, toolVars, proc, now, cacheVars, limiterVars>>

\* start_health_check() is called on its own
CallStartHealthCheck ==
    /\ MayCall
    /\ router' = start_health_check([router EXCEPT !.calls = @ + 1])
    /\ UNCHANGED <<planVars, toolVars, proc, now, cacheVars, limiterVars>>

\* lines 84-88: stop() is called; with a thread in the attribute the stop
\* event is set and the join begins
CallStop ==
    /\ MayCall
    /\ router' = IF router.health_check_thread # 0
                 THEN [router EXCEPT !.stop_health_check = TRUE, !.main = "join",
                                     !.calls = @ + 1]
                 ELSE [router EXCEPT !.main = "unregister", !.calls = @ + 1]
    /\ UNCHANGED <<planVars, toolVars, proc, now, cacheVars, limiterVars>>

\* line 88: join(timeout=5) returns: the thread is over, or the five seconds
\* pass while it is in a request of a report or of a registration
JoinThread ==
    /\ router.main = "join"
    /\ router.threads[router.health_check_thread] \in {"done", "report", "register"}
    /\ router' = [router EXCEPT !.main = "unregister"]
    /\ UNCHANGED <<planVars, toolVars, proc, now, cacheVars, limiterVars>>

\* line 90 and lines 145-162: unregister_capabilities, and the return of stop
UnregisterCapabilities ==
    /\ router.main = "unregister"
    /\ IF ~router.is_registered
       THEN router' = [router EXCEPT !.main = "idle"]
       ELSE \E answer \in Answers :
               router' = [router EXCEPT !.main = "idle",
                                        !.is_registered = IF answer = 200 THEN FALSE ELSE @]
    /\ UNCHANGED <<planVars, toolVars, proc, now, cacheVars, limiterVars>>

\* the threads one instance may have started: one per call at most
ThreadIds == 1..MaxApiCalls

\* where thread i stands, if it has been started
ThreadAt(i, pc) == i <= Len(router.threads) /\ router.threads[i] = pc

\* line 179: while not self.stop_health_check.is_set(), tested by thread i
ThreadLoop(i) ==
    /\ ThreadAt(i, "loop")
    /\ router' = [router EXCEPT !.threads[i] = IF router.stop_health_check
                                               THEN "done" ELSE "report"]
    /\ UNCHANGED <<planVars, toolVars, proc, now, cacheVars, limiterVars>>

\* lines 181, 206-227: the report of thread i is answered
ThreadReport(i) ==
    /\ ThreadAt(i, "report")
    /\ \E answer \in Answers :
          router' = [router EXCEPT !.threads[i] =
                        IF NeedsRegistration(answer, router.is_registered)
                        THEN "register" ELSE "wait"]
    /\ UNCHANGED <<planVars, toolVars, proc, now, cacheVars, limiterVars>>

\* line 225: register_capabilities called by thread i returns, registered, or
\* raises, and the loop catches what it raises (lines 182-183)
ThreadRegisters(i) ==
    /\ ThreadAt(i, "register")
    /\ \E registered \in BOOLEAN :
          router' = [router EXCEPT !.threads[i] = "wait",
                                   !.is_registered = IF registered THEN TRUE ELSE @]
    /\ UNCHANGED <<planVars, toolVars, proc, now, cacheVars, limiterVars>>

\* lines 186-189: the wait of thread i ends, by its range or by the stop event
ThreadWait(i) ==
    /\ ThreadAt(i, "wait")
    /\ router' = [router EXCEPT !.threads[i] = "loop"]
    /\ UNCHANGED <<planVars, toolVars, proc, now, cacheVars, limiterVars>>

InitIntegration ==
    /\ assignments = <<>>
    /\ planPc = "unused"
    /\ planOut = NoPlan
    /\ proc = [p \in Procs |-> IdleProc]
    /\ SharedInit
    /\ calls_per_minute = CallsPerMinute
    /\ router = NewIntegration

NextIntegration ==
    \/ CallStart
    \/ StartRegisters
    \/ CallStartHealthCheck
    \/ CallStop
    \/ JoinThread
    \/ UnregisterCapabilities
    \/ \E i \in ThreadIds :
            \/ ThreadLoop(i)
            \/ ThreadReport(i)
            \/ ThreadRegisters(i)
            \/ ThreadWait(i)

SpecIntegration == InitIntegration /\ [][NextIntegration]_vars

(***************************************************************************)
(* Specification of _generate_cache_key called by two callers, each with   *)
(* every prefix and every bounded list of keyword arguments.               *)
(***************************************************************************)
\* the values a keyword argument takes: the tools pass strings
KeyValues == {"c1", "c2"}

\* the keyword arguments of one call, as the list of (name, value) in the
\* order the call writes them; Python allows no name twice
KwargItems ==
    {d \in SeqsUpTo([name : Range(ParamNames), value : KeyValues], Len(ParamNames)) :
        \A i, j \in 1..Len(d) : i # j => d[i].name # d[j].name}

\* **kwargs: the dict Python builds from the keyword arguments
KwargsOf(d) == [x \in {d[i].name : i \in 1..Len(d)} |->
                  d[CHOOSE i \in 1..Len(d) : d[i].name = x].value]

RECURSIVE DumpInOrder(_, _)
\* json.dumps(kwargs) without sort_keys: the items in the order of the dict
DumpInOrder(d, k) ==
    IF k > Len(d) THEN ""
    ELSE d[k].name \o "=" \o d[k].value \o ";" \o DumpInOrder(d, k + 1)

\* the key built from the unsorted dump
CacheKeyInCallOrder(prefix, d) == prefix \o ":" \o DumpInOrder(d, 1)

\* self._generate_cache_key(prefix, name=value, ...)
CacheKeyOfCall(prefix, d) == generate_cache_key(prefix, KwargsOf(d))

InitKey ==
    /\ assignments = <<>>
    /\ planPc = "unused"
    /\ planOut = NoPlan
    /\ SharedInit
    /\ calls_per_minute = CallsPerMinute
    /\ router = NewRouter(TRUE)
    /\ \E prefix \in [Procs -> Tools], d \in [Procs -> KwargItems] :
            proc = [p \in Procs |->
                       [IdleProc EXCEPT !.pc = "key_call", !.tool = prefix[p],
                                        !.kwargs = d[p]]]

GenerateKey(p) ==
    /\ proc[p].pc = "key_call"
    /\ proc' = [proc EXCEPT ![p].pc = "returned",
                            ![p].key = CacheKeyOfCall(proc[p].tool, proc[p].kwargs)]
    /\ UNCHANGED <<planVars, routerVars, toolVars, now, cacheVars, limiterVars>>

NextKey == \E p \in Procs : GenerateKey(p)

SpecKey == InitKey /\ [][NextKey]_vars

(***************************************************************************)
(* Specification of decompose_task called on its own by two callers, each  *)
(* with a task of every type, known or not, with or without its fields.    *)
(***************************************************************************)
\* the types a task dict carries: the three known ones, one no branch
\* handles, the empty string, and no 'type' key at all
TaskTypes == Tools \cup {"unknown_type", "", NoField}
\* the code a task dict carries, or no 'code' key
TaskCodes == Codes \cup {NoField}
\* the principles a task dict carries, or no 'principles' key
TaskPrinciples == Principles \cup {NoField}

\* the task dicts handed to decompose_task
Tasks == [type : TaskTypes, code : TaskCodes, principles : TaskPrinciples]

\* the task a caller holds
TaskOf(st) == [type |-> st.tool, code |-> st.code, principles |-> st.principles]

InitDecompose ==
    /\ assignments = <<>>
    /\ planPc = "unused"
    /\ planOut = NoPlan
    /\ SharedInit
    /\ calls_per_minute = CallsPerMinute
    /\ router = NewRouter(TRUE)
    /\ \E task \in [Procs -> Tasks] :
            proc = [p \in Procs |->
                       [IdleProc EXCEPT !.pc = "decompose_call", !.tool = task[p].type,
                                        !.code = task[p].code,
                                        !.principles = task[p].principles]]

\* self.orchestrator.decompose_task(task): the list it returns is kept in
\* plan, the exception it raises in error
Decompose(p) ==
    /\ proc[p].pc = "decompose_call"
    /\ LET dec == decompose_task(TaskOf(proc[p]))
       IN proc' = [proc EXCEPT ![p] =
                     IF dec.status = "ok"
                     THEN [@ EXCEPT !.pc = "returned", !.plan = dec.assignments]
                     ELSE [@ EXCEPT !.pc = "raised",
                                    !.error = [kind |-> dec.status, id |-> NoField]]]
    /\ UNCHANGED <<planVars, routerVars, toolVars, now, cacheVars, limiterVars>>

NextDecompose == \E p \in Procs : Decompose(p)

SpecDecompose == InitDecompose /\ [][NextDecompose]_vars

(***************************************************************************)
(* Specification of _handle_api_call of one server, the orchestrator, the  *)
(* mermaid server or the solid server, with concurrent callers sharing its *)
(* rate limiter.                                                           *)
(***************************************************************************)
InitServers ==
    /\ assignments = <<>>
    /\ planPc = "unused"
    /\ planOut = NoPlan
    /\ SharedInit
    /\ calls_per_minute = CallsPerMinute
    /\ router = NewRouter(TRUE)
    /\ \E server \in ServerCallers :
            proc = [p \in Procs |-> [IdleProc EXCEPT !.tool = server]]

NextServers ==
    \/ \E p \in Procs :
            \/ ApiStart(p)
            \/ WaitIfNeeded(p)
            \/ WakeUp(p)
            \/ BackendCall(p)
            \/ RecordCall(p)
    \/ Tick

SpecServers == InitServers /\ [][NextServers]_vars

(***************************************************************************)
(* Specification of the orchestrator: concurrent callers of its tools,     *)
(* sharing its cache and its rate limiter.                                 *)
(***************************************************************************)
Init ==
    /\ assignments = <<>>
    /\ planPc = "unused"
    /\ planOut = NoPlan
    /\ proc = [p \in Procs |-> IdleProc]
    /\ SharedInit
    /\ calls_per_minute = ToolCallsPerMinute
    /\ router = NewRouter(TRUE)

Next ==
    \/ \E p \in Procs :
            \/ ToolCall(p)
            \/ ExecStep(p)
            \/ ExecReturn(p)
            \/ Synthesize(p)
            \/ WaitIfNeeded(p)
            \/ WakeUp(p)
            \/ BackendCall(p)
            \/ RecordCall(p)
            \/ Store(p)
    \/ ClearCache
    \/ Tick

Spec == Init /\ [][Next]_vars

(***************************************************************************)
(* The dependency relation of a list of assignments, stated without the    *)
(* depth-first walk.                                                       *)
(***************************************************************************)
IdsOf(as) == {as[i].id : i \in 1..Len(as)}

DistinctIds(as) == \A i, j \in 1..Len(as) : i # j => as[i].id # as[j].id

NoDangling(as) ==
    \A i \in 1..Len(as) : Range(as[i].dependencies) \subseteq IdsOf(as)

\* <<x, d>>: the dependency graph holds d among the dependencies of x
DepEdges(as) ==
    {e \in IdsOf(as) \X DepIds : e[2] \in Range(GraphDeps(as, e[1]))}

RECURSIVE TransitiveClosure(_)
TransitiveClosure(R) ==
    LET ends == {e[1] : e \in R} \cup {e[2] : e \in R}
        joined == R \cup {p \in ends \X ends :
                             \E m \in ends : <<p[1], m>> \in R /\ <<m, p[2]>> \in R}
    IN IF joined = R THEN R ELSE TransitiveClosure(joined)

\* the ids that depend on themselves, directly or through other assignments
OnCycle(as) ==
    LET closure == TransitiveClosure(DepEdges(as))
    IN {x \in IdsOf(as) : <<x, x>> \in closure}

HasCycle(as) == OnCycle(as) # {}

Submitted == AssignIds(assignments)

\* C1: for an acyclic list of assignments with pairwise distinct ids and no
\* dangling dependency, create_plan returns a plan in which every dependency of
\* an assignment stands strictly before that assignment.
C1_PlanIsTopological ==
    (/\ planPc = "done"
     /\ DistinctIds(Submitted)
     /\ NoDangling(Submitted)
     /\ ~HasCycle(Submitted))
    => /\ planOut.status = "ok"
       /\ \A k \in 1..Len(planOut.plan) :
            \A d \in Range(planOut.plan[k].dependencies) :
                \E j \in 1..(k - 1) : planOut.plan[j].id = d

\* a plan of three assignments in which the one submitted first, depending on
\* the other two, was moved behind them
C1_Witness ==
    /\ planPc = "done"
    /\ DistinctIds(Submitted) /\ NoDangling(Submitted) /\ ~HasCycle(Submitted)
    /\ planOut.status = "ok"
    /\ Len(planOut.plan) = 3
    /\ Len(Submitted[1].dependencies) = 2
    /\ planOut.plan[3] = Submitted[1]

\* C2: when the dependency graph holds a cycle (a self-dependency included),
\* create_plan raises TaskDecompositionError naming an id on a cycle, and
\* returns no plan at all.
C2_CycleRaises ==
    planPc = "done" =>
        LET cyclic == OnCycle(Submitted)
        IN cyclic # {} =>
            /\ planOut.status = "TaskDecompositionError"
            /\ planOut.plan = <<>>
            /\ planOut.node \in cyclic

\* two assignments that depend on each other were refused
C2_Witness ==
    /\ planPc = "done"
    /\ Len(Submitted) = 2
    /\ Submitted[1].id # Submitted[2].id
    /\ Submitted[1].dependencies = <<Submitted[2].id>>
    /\ Submitted[2].dependencies = <<Submitted[1].id>>
    /\ planOut.status = "TaskDecompositionError"

(***************************************************************************)
(* execute_worker_tasks: dependencies, failures, completeness.             *)
(***************************************************************************)
\* the assignment of the caller's plan that carries this id
AssignmentOf(p, id) ==
    proc[p].plan[CHOOSE k \in 1..Len(proc[p].plan) : proc[p].plan[k].id = id]

\* C3: a worker is called for an assignment only when every id among the
\* assignment's dependencies has a value in the result map, and when the
\* assignment wires in the output of an analysis (analysis_dependency) that
\* has a recorded value, the input of the call embeds exactly that value
\* together with the code context.
C3_InvokedAfterDependencies ==
    \A p \in Procs : \A k \in 1..Len(proc[p].log) :
        LET e == proc[p].log[k]
            a == AssignmentOf(p, e.id)
            dep == a.subtask.analysis_dependency
        IN /\ Range(a.dependencies) \subseteq DOMAIN e.before
           /\ (dep # NoField /\ dep \in DOMAIN e.before) =>
                 e.input = [kind |-> "code_and_analysis",
                            code |-> a.subtask.code_context,
                            analysis |-> e.before[dep]]

\* the analyzer ran first and the diagram generator, which depends on it, was
\* then called with the analysis that the analyzer had just returned
C3_Witness ==
    /\ Len(proc[1].log) = 2
    /\ proc[1].given = EmptyMap
    /\ proc[1].log[1].id = "analyze"
    /\ proc[1].log[2].method = "generate_diagram"
    /\ AssignmentOf(1, proc[1].log[2].id).dependencies = <<"analyze">>
    /\ proc[1].log[2].input.kind = "code_and_analysis"
    /\ proc[1].log[2].input.analysis = "r2"
    /\ proc[1].pc = "returned"

\* C4: when a worker call raises, it is the last call of the run (nothing
\* later in the plan is called, and the failing assignment is not called
\* again), and the caller gets a WorkerError naming the failing assignment in
\* place of a result map.
C4_FailureAborts ==
    \A p \in Procs : \A k \in 1..Len(proc[p].log) :
        proc[p].log[k].failed =>
            /\ k = Len(proc[p].log)
            /\ \A j \in 1..Len(proc[p].log) :
                    j # k => proc[p].log[j].id # proc[p].log[k].id
            /\ proc[p].pc = "raised"
            /\ proc[p].error = [kind |-> "WorkerError", id |-> proc[p].log[k].id]
            /\ proc[p].returned = EmptyMap

\* the first of two assignments failed while the second one, with no
\* dependency and a query of its own, was ready to run
C4_Witness ==
    /\ proc[1].pc = "raised"
    /\ Len(proc[1].plan) = 2
    /\ proc[1].idx = 1
    /\ Len(proc[1].log) = 1
    /\ proc[1].log[1].failed
    /\ proc[1].given = EmptyMap
    /\ proc[1].plan[2].worker_type = "mermaid_generator"
    /\ proc[1].plan[2].subtask.action = "generate_diagram"
    /\ proc[1].plan[2].subtask.query # NoField
    /\ proc[1].plan[2].dependencies = <<>>

\* C5: execute_worker_tasks either raises or returns a map that holds a value
\* for every assignment it was given.
C5_ReturnedMapIsComplete ==
    \A p \in Procs :
        proc[p].pc = "returned" =>
            \A k \in 1..Len(proc[p].plan) :
                proc[p].plan[k].id \in DOMAIN proc[p].returned

(***************************************************************************)
(* Cache: time to live.                                                    *)
(***************************************************************************)
\* C6: a get of a key whose last set wrote v at time t, and which no
\* invalidate or clear has removed since, answers (True, v) at every time
\* before t + ttl_seconds and a miss at every time from t + ttl_seconds on.
C6_HitUntilTtl ==
    (cacheLog.key # NoField /\ cacheLog.stored) =>
        IF cacheLog.at < cacheLog.storedAt + ttl_seconds
        THEN cacheLog.hit /\ cacheLog.value = cacheLog.storedValue
        ELSE ~cacheLog.hit

\* a get answered with the stored value one tick before the entry's age
\* reached ttl_seconds
C6_WitnessHit ==
    /\ cacheLog.key # NoField /\ cacheLog.stored
    /\ cacheLog.hit
    /\ cacheLog.at - cacheLog.storedAt > 0
    /\ cacheLog.at - cacheLog.storedAt + 5 >= ttl_seconds

\* a get answered with a miss when the entry's age was exactly ttl_seconds,
\* the entry still being in the dict
C6_Witness ==
    /\ cacheLog.key # NoField /\ cacheLog.stored
    /\ ~cacheLog.hit
    /\ cacheLog.at = cacheLog.storedAt + ttl_seconds
    /\ cacheLog.key \in DOMAIN cache

(***************************************************************************)
(* The tools and the cache.                                                *)
(***************************************************************************)
\* C7 as stated: a tool called with the parameters of an earlier successful
\* call, less than ttl_seconds after that call stored its value, returns
\* that value and calls no worker and no backend.
C7_SecondCallServedFromCache ==
    \A p \in Procs :
        LET c == proc[p].prior
        IN (c.known /\ c.age < ttl_seconds) =>
              /\ proc[p].pc = "returned"
              /\ proc[p].hit
              /\ proc[p].result = c.value
              /\ proc[p].log = <<>>

\* C7: a tool called with the parameters of an earlier successful call, less
\* than ttl_seconds after the latest such call stored its value and with no
\* clear_cache since that store, returns that value and calls no worker and
\* no backend.
C7_ServedFromCacheUnlessCleared ==
    \A p \in Procs :
        LET c == proc[p].prior
        IN (c.known /\ c.live /\ c.age < ttl_seconds) =>
              /\ proc[p].pc = "returned"
              /\ proc[p].hit
              /\ proc[p].result = c.value
              /\ proc[p].log = <<>>

\* a documentation written at time 0 was handed out again 55 seconds later
C7_Witness ==
    \E p \in Procs :
        LET c == proc[p].prior
        IN /\ proc[p].tool = "create_documentation"
           /\ c.known /\ c.live
           /\ c.age = 55
           /\ proc[p].pc = "returned"
           /\ proc[p].hit
           /\ proc[p].result = c.value

(***************************************************************************)
(* RateLimiter: the bound, the window, the wait.                           *)
(***************************************************************************)
\* backend calls that returned, made in the 60 seconds ending with call i
CallsInWindowEndingAt(i) ==
    {j \in 1..Len(backend_calls) :
        /\ backend_calls[i] - Window < backend_calls[j]
        /\ backend_calls[j] <= backend_calls[i]}

\* C8: with callers that each go through wait_if_needed, the backend call and
\* record_call, no 60-second window holds more than calls_per_minute backend
\* calls.
C8_AtMostNCallsPerWindow ==
    \A i \in 1..Len(backend_calls) :
        Cardinality(CallsInWindowEndingAt(i)) <= calls_per_minute

\* C9: when calls_per_minute calls were recorded at the present instant,
\* can_make_call answers False; when every recorded call is at least 61
\* seconds old, it answers True.
C9_CanMakeCall ==
    \A p \in Procs :
        LET c == proc[p].can
        IN c.asked =>
            /\ Cardinality({i \in 1..Len(c.history) : c.history[i] = c.at})
                    >= calls_per_minute => ~c.answer
            /\ (\A i \in 1..Len(c.history) : c.at - c.history[i] >= 61) => c.answer

\* the limiter, full 61 seconds earlier and not used since, admits calls again
C9_Witness ==
    \E p \in Procs :
        LET c == proc[p].can
        IN /\ c.asked
           /\ Len(c.history) >= calls_per_minute
           /\ \A i \in 1..Len(c.history) : c.at - c.history[i] = 61
           /\ c.answer

\* the limiter refused right after calls_per_minute calls were recorded
C9_WitnessFull ==
    \E p \in Procs :
        LET c == proc[p].can
        IN /\ c.asked
           /\ Len(c.history) = calls_per_minute
           /\ \A i \in 1..Len(c.history) : c.history[i] = c.at
           /\ ~c.answer

C10_WitnessRaise ==
    \E p \in Procs :
        /\ proc[p].pc = "raised"
        /\ proc[p].waited.outcome = "raise"
        /\ Len(proc[p].waited.history) >= calls_per_minute
        /\ proc[p].waited.at - proc[p].waited.history[1] = 5

(***************************************************************************)
(* _handle_api_call: the order of its steps.                               *)
(***************************************************************************)
Occurrences(e, x) == Cardinality({i \in 1..Len(e) : e[i] = x})

\* the _handle_api_call of this caller has returned or raised
ApiCallOver(p) == proc[p].pc \in {"returned", "raised", "store"}

\* C11: in one _handle_api_call, record_call runs only right after the backend
\* call returned, which itself comes after wait_if_needed returned; once the
\* call is over it has run exactly once if the backend call returned and not
\* at all if wait_if_needed or the backend call raised.
C11_RecordOncePerSuccess ==
    \A p \in Procs :
        LET e == proc[p].events
        IN /\ \A i \in 1..Len(e) :
                 e[i] = "record_call" =>
                    /\ i = 3
                    /\ e[1] = "wait_returned"
                    /\ e[2] = "call_returned"
           /\ \A i \in 1..Len(e) :
                 e[i] \in {"call_returned", "call_raised"} =>
                    i = 2 /\ e[1] = "wait_returned"
           /\ (ApiCallOver(p) /\ e # <<>>) =>
                 Occurrences(e, "record_call") = Occurrences(e, "call_returned")

\* a call that slept in wait_if_needed, called the backend and recorded once
C11_Witness ==
    \E p \in Procs :
        /\ proc[p].pc = "returned"
        /\ proc[p].tool = "api"
        /\ proc[p].events = <<"wait_returned", "call_returned", "record_call">>
        /\ proc[p].wakeAt > 0

\* a call whose backend function raised and that recorded nothing
C11_WitnessRaise ==
    \E p \in Procs :
        /\ proc[p].pc = "raised"
        /\ proc[p].events = <<"wait_returned", "call_raised">>

(***************************************************************************)
(* Cache and RateLimiter: mutual exclusion.                                *)
(***************************************************************************)
\* C12: a mutation of the cache runs under mutual exclusion: while a caller
\* is between the two statements of invalidate (the test of the key and the
\* del), no step of anyone else changes the cache; and the caller that sleeps
\* inside wait_if_needed holds the limiter's lock.
C12_MutationsAreExclusive ==
    [][\A p \in Procs :
          /\ (proc[p].pc = "inv_del" /\ proc'[p].pc = "inv_del") => cache' = cache
          /\ proc[p].pc = "api_sleep" => lock = p]_vars

\* what the missing lock lets happen: the del of invalidate, or the read of
\* get, raising KeyError on an entry that was there at the test
C12_KeyErrorReached ==
    \E p \in Procs :
        /\ proc[p].pc = "raised"
        /\ proc[p].error.kind = "KeyError"

(***************************************************************************)
(* synthesize_results: the named outputs.                                  *)
(***************************************************************************)
\* the keys of the result map the task type reads
ExpectedKeys(type) ==
    IF type = "analyze_and_visualize" THEN {"analyze", "visualize"}
    ELSE {"generate_diagram"}

\* C13: synthesize_results called for analyze_and_visualize or
\* generate_class_diagram returns the value built from the expected entries
\* when the result map holds them all, and raises SynthesisError when one of
\* them is missing.
C13_MissingKeyRaises ==
    \A p \in Procs :
        (proc[p].pc \in {"returned", "raised"} /\ proc[p].tool \in Tools) =>
            LET r == proc[p].returned
            IN IF ExpectedKeys(proc[p].tool) \subseteq DOMAIN r
               THEN /\ proc[p].pc = "returned"
                    /\ proc[p].result =
                         IF proc[p].tool = "analyze_and_visualize"
                         THEN [kind |-> "analysis_and_diagram",
                               items |-> <<r["analyze"], r["visualize"]>>]
                         ELSE [kind |-> "text", items |-> <<r["generate_diagram"]>>]
               ELSE /\ proc[p].pc = "raised"
                    /\ proc[p].error.kind = "SynthesisError"

\* the half of C13 that holds: with every expected entry present the value is
\* built from exactly those entries
C13_PresentKeysAreUsed ==
    \A p \in Procs :
        (proc[p].pc = "returned" /\ proc[p].tool \in Tools
            /\ ExpectedKeys(proc[p].tool) \subseteq DOMAIN proc[p].returned) =>
                proc[p].result =
                     IF proc[p].tool = "analyze_and_visualize"
                     THEN [kind |-> "analysis_and_diagram",
                           items |-> <<proc[p].returned["analyze"],
                                       proc[p].returned["visualize"]>>]
                     ELSE [kind |-> "text",
                           items |-> <<proc[p].returned["generate_diagram"]>>]

(***************************************************************************)
(* assign_workers: dependency cycles.                                      *)
(***************************************************************************)
\* C14: assign_workers called with assignments whose dependency graph holds a
\* cycle raises TaskDecompositionError and hands back no worker assignment.
C14_CycleSurfacesAsDecompositionError ==
    (planPc = "assigned" /\ HasCycle(Submitted)) =>
        /\ planOut.status = "TaskDecompositionError"
        /\ planOut.plan = <<>>

\* what the code does on a cycle: no worker assignment is handed back, and the
\* exception that reaches the caller is WorkerError
C14_CycleSurfacesAsWorkerError ==
    (planPc = "assigned" /\ HasCycle(Submitted)) =>
        /\ planOut.status = "WorkerError"
        /\ planOut.plan = <<>>

(***************************************************************************)
(* RouterIntegration: registration, health reports, shutdown.              *)
(***************************************************************************)
\* what one call of register_capabilities has done so far: never more than
\* max_retries attempts, no attempt after an answer 200, a sleep of
\* retry_interval after each failed attempt but the last, a return only on
\* the answer 200 and a raise only after max_retries failed attempts
CallInOrder(call, pc) ==
    /\ call.attempt <= MaxRetries
    /\ call.outcome = "returned" =>
            /\ call.last = 200
            /\ call.attempt >= 1
            /\ call.slept = RetryInterval * (call.attempt - 1)
    /\ call.outcome = "raised" =>
            /\ call.last # 200
            /\ call.attempt = MaxRetries
            /\ call.slept = RetryInterval * (MaxRetries - 1)
    /\ call.outcome = "running" /\ pc = "register" =>
            /\ call.attempt < MaxRetries
            /\ call.attempt >= 1 => call.last # 200
            /\ call.slept = RetryInterval * call.attempt
    /\ call.outcome = "running" /\ pc = "retry_sleep" =>
            /\ call.attempt < MaxRetries
            /\ call.last # 200
            /\ call.slept = RetryInterval * (call.attempt - 1)

\* C15: register_capabilities makes at most max_retries attempts, stops at
\* the first one answered with 200 and then sets is_registered, sleeps
\* retry_interval between consecutive attempts and not after the last one,
\* and when max_retries attempts have failed raises
\* CapabilityRegistrationError with is_registered false.
C15_RegistrationAttempts ==
    /\ [](\A c \in Callers : CallInOrder(router.reg[c], At(router, c)))
    /\ [][\A c \in Callers :
            /\ (router.reg[c].outcome = "running" /\ router'.reg[c].outcome = "returned")
                    => router'.is_registered
            /\ (router.reg[c].outcome = "running" /\ router'.reg[c].outcome = "raised")
                    => ~router'.is_registered /\ ~router.is_registered]_vars

\* the registration at startup succeeded at its last attempt, and a later
\* registration made by the health check thread failed at every attempt
C15_Witness ==
    /\ router.reg["main"].outcome = "returned"
    /\ router.reg["main"].attempt = MaxRetries
    /\ router.reg["main"].slept = RetryInterval * (MaxRetries - 1)
    /\ router.reg["health"].outcome = "raised"
    /\ router.reg["health"].attempt = MaxRetries

\* a health report was sent in this step and answered with 404
NotFoundReported == router'.reports = router.reports + 1 /\ router'.reported = 404

\* C16: a health report answered with 404 while is_registered is true is
\* followed at once by a call of register_capabilities.
C16_NotFoundWhileRegisteredReregisters ==
    [][NotFoundReported /\ router.is_registered => router'.health = "register"]_vars

\* what the code does: the answer 404 leads to register_capabilities exactly
\* when is_registered is false
C16_NotFoundReregistersWhenUnregistered ==
    [][NotFoundReported => (router'.health = "register" <=> ~router.is_registered)]_vars

\* the health check thread is in a registration it began after a report
C16_ReregistrationReached ==
    /\ router.health = "register"
    /\ router.reported = 404

\* unregister_capabilities ran in this step
UnregisterRan == router.main = "unregister" /\ router'.main # "unregister"

\* C17: stop sets the stop event and joins the health check thread, with a
\* timeout, before it attempts to unregister; a failed unregistration does
\* not leave stop as an exception and leaves is_registered true, a
\* successful one sets is_registered to false, and no unregister request is
\* sent when is_registered is false.
C17_StopThenBestEffortUnregister ==
    /\ [](router.health # "none" /\ router.main \in {"unregister", "stopped", "exited"}
            => router.stop_health_check /\ router.joined \in {"done", "timeout"})
    /\ [][UnregisterRan =>
            /\ router'.main = "stopped"
            /\ router.is_registered =>
                    /\ router'.unregister_posts = router.unregister_posts + 1
                    /\ router'.unregistered \in {"ok", "failed"}
            /\ ~router.is_registered =>
                    /\ router'.unregister_posts = router.unregister_posts
                    /\ router'.unregistered = "skipped"
                    /\ ~router'.is_registered
            /\ router'.unregistered = "failed" => router'.is_registered
            /\ router'.unregistered = "ok" => ~router'.is_registered]_vars

\* stop returned after the thread was joined and the unregistration failed
C17_Witness ==
    /\ router.main = "stopped"
    /\ router.joined = "done"
    /\ router.unregistered = "failed"
    /\ router.unregister_posts = 1
    /\ router.is_registered

\* stop returned without a request: the registration at startup had failed
C17_WitnessSkipped ==
    /\ router.main = "stopped"
    /\ router.unregistered = "skipped"
    /\ router.start_failed

\* C18: when the registration made by start() fails, run still goes on to
\* mcp.run(), the instance is left unregistered and no health check thread
\* is started.
C18_FailedStartStillServes ==
    router.start_failed =>
        /\ router.served
        /\ router.main \in {"serving", "unregister", "stopped", "exited"}
        /\ ~router.is_registered
        /\ router.health = "none"
        /\ router.reports = 0

\* every attempt of the registration at startup failed and the server runs
C18_Witness ==
    /\ router.start_failed
    /\ router.reg["main"].outcome = "raised"
    /\ router.reg["main"].attempt = MaxRetries
    /\ router.main = "serving"

\* a health report was sent in this step
ReportSent == router'.reports = router.reports + 1

\* C19: a failed health report (transport error, answer other than 200, or
\* a failed registration made inside it) does not end the health check loop
\* and is not retried at once: the loop ends only when the stop event is
\* set, and every report after the first is sent after health_check_interval
\* sleeps of one second since the report before it.
C19_FailedReportWaitsForNextInterval ==
    /\ [](router.health = "wait" => router.remaining + router.ticks = HealthCheckInterval)
    /\ [][/\ ReportSent /\ router.reports >= 1 => router.ticks = HealthCheckInterval
          /\ ReportSent => router'.health \in {"wait", "register"} /\ router'.ticks = 0
          /\ (router.reg["health"].outcome = "running"
                    /\ router'.reg["health"].outcome = "raised")
                => router'.health = "wait" /\ router'.remaining = HealthCheckInterval
          /\ router.health # "done" /\ router'.health = "done"
                => router.stop_health_check]_vars

\* every report of the run failed, and each was followed by the next
C19_Witness ==
    /\ router.reports = MaxReports
    /\ router.failed = MaxReports
    /\ ~router.stop_health_check

\* a registration made inside a report failed and the loop went to its wait
C19_WitnessRegistration ==
    /\ router.reg["health"].outcome = "raised"
    /\ router.health = "wait"

(***************************************************************************)
(* analyze_and_visualize: the two workers in order.                        *)
(***************************************************************************)
\* the worker calls a call of analyze_and_visualize has made so far are the
\* first ones of: analyze_code on the code, then generate_diagram on a query
\* holding the code and the result of analyze_code
WorkersInOrder(st) ==
    /\ Len(st.log) <= 2
    /\ Len(st.log) >= 1 =>
            /\ st.log[1].method = "analyze_code"
            /\ st.log[1].input.code = st.code
    /\ Len(st.log) = 2 =>
            /\ ~st.log[1].failed
            /\ st.log[2].method = "generate_diagram"
            /\ st.log[2].input = [kind |-> "code_and_analysis", code |-> st.code,
                                  analysis |-> st.log[2].before["analyze"]]

\* the record {analysis, diagram} built from a result map
AnalysisAndDiagram(r) ==
    [kind |-> "analysis_and_diagram", items |-> <<r["analyze"], r["visualize"]>>]

C21_GetLeavesStoreUnchanged ==
    /\ [](cache = written)
    /\ [][cacheLog' # cacheLog => cache' = cache]_vars

\* a get missed on an expired entry, and the entry is still in the store
\* with the value and the timestamp of its set
C21_Witness ==
    /\ cacheLog.key \in DOMAIN cache
    /\ ~cacheLog.hit
    /\ cacheLog.stored
    /\ cacheLog.at - cacheLog.storedAt >= ttl_seconds
    /\ cache[cacheLog.key] = [timestamp |-> cacheLog.storedAt,
                              value |-> cacheLog.storedValue]

(***************************************************************************)
(* _generate_cache_key                                                     *)
(***************************************************************************)
\* C22: the key is a function of the operation name and of the set of
\* (name, value) pairs: two calls with the same operation and equal
\* parameters get the same key in whatever order the parameters are written,
\* and every key begins with the operation name followed by ':'.
C22_KeyIgnoresParameterOrder ==
    \A p, q \in Procs :
        proc[p].pc = "returned" /\ proc[q].pc = "returned" =>
            /\ SubSeq(proc[p].key, 1, Len(proc[p].tool) + 1) = proc[p].tool \o ":"
            /\ (proc[p].tool = proc[q].tool
                    /\ KwargsOf(proc[p].kwargs) = KwargsOf(proc[q].kwargs))
                => proc[p].key = proc[q].key

\* two calls wrote the same two parameters in opposite orders and got one key
C22_Witness ==
    /\ proc[1].pc = "returned" /\ proc[2].pc = "returned"
    /\ proc[1].tool = proc[2].tool
    /\ Len(proc[1].kwargs) = 2
    /\ proc[1].kwargs # proc[2].kwargs
    /\ KwargsOf(proc[1].kwargs) = KwargsOf(proc[2].kwargs)
    /\ proc[1].key = proc[2].key

(***************************************************************************)
(* The tools and the cache: concurrent requests for one key.               *)
(***************************************************************************)
\* caller p began a tool call with code that passed the check in this step
ToolCalled(p) == AtRest(p) /\ started' = started + 1 /\ proc'[p].code \notin {"", NoField}
                    /\ proc'[p] # proc[p]

\* C23: the cache gives no single-flight guarantee. Whether a request hits
\* is decided by the cache alone, whatever other request for the same key
\* is in progress, and every request that missed stores its own result over
\* whatever the key holds; so two concurrent requests for one key can both
\* miss, both compute and both store, the later store replacing the earlier.
C23_NoSingleFlight ==
    [][\A p \in Procs :
         /\ ToolCalled(p) =>
                (proc'[p].hit <=> CacheGet(cache, proc'[p].key, now, ttl_seconds).hit)
         /\ (proc[p].pc = "store" /\ proc'[p].pc = "returned") =>
                /\ ~proc[p].hit
                /\ proc[p].key \in DOMAIN cache'
                /\ cache'[proc[p].key].value = proc[p].result]_vars

\* two requests for one key both missed before either had stored, both
\* computed and both stored; the results differ and the cache holds the one
\* stored last
C23_Witness ==
    /\ proc[1].pc = "returned" /\ proc[2].pc = "returned"
    /\ ~proc[1].hit /\ ~proc[2].hit
    /\ ~proc[1].prior.known /\ ~proc[2].prior.known
    /\ proc[1].tool = "analyze_and_visualize"
    /\ proc[1].key = proc[2].key
    /\ proc[1].result # proc[2].result
    /\ proc[1].key \in DOMAIN cache
    /\ cache[proc[1].key].value = proc[2].result

(***************************************************************************)
(* create_plan: independent assignments, ids, dangling dependencies.       *)
(***************************************************************************)
\* the place of the assignment with this id in the plan
PlaceInPlan(id) == CHOOSE k \in 1..Len(planOut.plan) : planOut.plan[k].id = id

\* no dependency path leads from one of the two ids to the other
Independent(as, x, y) ==
    LET closure == TransitiveClosure(DepEdges(as))
    IN <<x, y>> \notin closure /\ <<y, x>> \notin closure

\* C24: of two assignments of an acyclic list with no dependency path
\* between them in either direction, create_plan places the one submitted
\* earlier before the one submitted later.
C24_IndependentKeepSubmissionOrder ==
    (/\ planPc = "done"
     /\ DistinctIds(Submitted)
     /\ NoDangling(Submitted)
     /\ ~HasCycle(Submitted))
    => /\ planOut.status = "ok"
       /\ \A i, j \in 1..Len(Submitted) :
            (i < j /\ Independent(Submitted, Submitted[i].id, Submitted[j].id))
                => PlaceInPlan(Submitted[i].id) < PlaceInPlan(Submitted[j].id)

\* the assignment submitted third, a dependency of the first, was placed
\* before the second, which it has no dependency path to or from
C24_LaterPlacedFirst ==
    /\ planPc = "done"
    /\ planOut.status = "ok"
    /\ Len(Submitted) = 3
    /\ DistinctIds(Submitted) /\ NoDangling(Submitted) /\ ~HasCycle(Submitted)
    /\ Independent(Submitted, Submitted[2].id, Submitted[3].id)
    /\ PlaceInPlan(Submitted[3].id) < PlaceInPlan(Submitted[2].id)

\* the ids the caller wrote are pairwise distinct
ExplicitIdsDistinct(as) ==
    \A i, j \in 1..Len(as) :
        (i # j /\ as[i].id # NoId /\ as[j].id # NoId) => as[i].id # as[j].id

\* after create_plan every assignment has an id: its own, or task_<i> for
\* the one submitted without an id at position i (counted from 0)
EveryAssignmentHasId ==
    /\ Len(planOut.assignments) = Len(assignments)
    /\ \A i \in 1..Len(assignments) :
            /\ planOut.assignments[i].id # NoId
            /\ planOut.assignments[i].id =
                    IF assignments[i].id = NoId THEN TaskId(i - 1) ELSE assignments[i].id

\* C25: after create_plan every assignment has an id, task_<i> for one
\* submitted without an id at position i, and the ids of the assignments are
\* pairwise distinct whenever the ids the caller wrote are pairwise distinct.
C25_IdsAssignedAndDistinct ==
    planPc = "done" =>
        /\ EveryAssignmentHasId
        /\ ExplicitIdsDistinct(assignments) => DistinctIds(planOut.assignments)

\* the half of C25 that holds: every assignment has an id after create_plan
C25_IdsAssigned == planPc = "done" => EveryAssignmentHasId

\* the caller wrote distinct ids, a generated id met a written one, and the
\* plan returned is one assignment short
C25_CollisionDropsAssignment ==
    /\ planPc = "done"
    /\ planOut.status = "ok"
    /\ ExplicitIdsDistinct(assignments)
    /\ ~DistinctIds(planOut.assignments)
    /\ Len(planOut.plan) < Len(assignments)

\* C26: when a dependency names an id that no assignment of the list
\* carries, create_plan returns no plan and raises TaskDecompositionError.
C26_DanglingRaisesDecompositionError ==
    (planPc = "done" /\ ~NoDangling(Submitted)) =>
        /\ planOut.status = "TaskDecompositionError"
        /\ planOut.plan = <<>>

\* what the code does on a dangling dependency when the ids are pairwise
\* distinct: no plan is returned, and the exception is the KeyError of
\* task_map unless the walk met a cycle first
C26_DanglingRaisesKeyError ==
    (planPc = "done" /\ DistinctIds(Submitted) /\ ~NoDangling(Submitted)) =>
        /\ planOut.plan = <<>>
        /\ planOut.status = IF HasCycle(Submitted) THEN "TaskDecompositionError"
                             ELSE "KeyError"

\* a list without a cycle and with a dangling dependency ended in KeyError
C26_KeyErrorReached ==
    /\ planPc = "done"
    /\ ~NoDangling(Submitted)
    /\ ~HasCycle(Submitted)
    /\ planOut.status = "KeyError"

(***************************************************************************)
(* _handle_api_call: the limiter's refusal.                                *)
(***************************************************************************)
\* the call of caller p was refused by wait_if_needed
Refused(st) == st.events # <<>> /\ st.events[Len(st.events)] = "wait_raised"

Decomposed(p) == proc[p].pc \in {"returned", "raised"}

Undecomposable(task) == task.type \notin Tools \/ task.code = NoField

C28_UnknownOrIncompleteTaskRaises ==
    \A p \in Procs :
        Decomposed(p) =>
            IF Undecomposable(TaskOf(proc[p]))
            THEN /\ proc[p].pc = "raised"
                 /\ proc[p].error.kind = "TaskDecompositionError"
                 /\ proc[p].plan = <<>>
            ELSE /\ proc[p].pc = "returned"
                 /\ proc[p].plan # <<>>
                 /\ \A k \in 1..Len(proc[p].plan) :
                        /\ proc[p].plan[k].subtask.code # NoField
                              => proc[p].plan[k].subtask.code = proc[p].code
                        /\ proc[p].plan[k].subtask.code_context # NoField
                              => proc[p].plan[k].subtask.code_context = proc[p].code
                        /\ proc[p].plan[k].subtask.query # NoField
                              => proc[p].plan[k].subtask.query = ClassDiagramQuery(proc[p].code)

C28_Witness ==
    /\ proc[1].pc = "raised"
    /\ proc[1].tool = "unknown_type"
    /\ proc[1].code = "c1"
    /\ proc[1].error.kind = "TaskDecompositionError"
    /\ proc[2].pc = "raised"
    /\ proc[2].tool = "create_documentation"
    /\ proc[2].code = NoField
    /\ proc[2].error.kind = "TaskDecompositionError"

\* C29: each of the three tools, called with code that is empty or holds
\* only whitespace, raises ValueError before it builds a cache key or looks
\* the cache up; the call leaves the cache and the call history of the rate
\* limiter as they were, calls no worker and makes no backend call.
BlankCodes == {"", " "}

RejectedInput(st) == st.pc = "raised" /\ st.error.kind = "ValueError"

C29_BlankCodeRaisesValueError ==
    /\ [](\A p \in Procs :
            /\ (proc[p].tool \in Tools /\ proc[p].code \in BlankCodes)
                    => RejectedInput(proc[p])
            /\ proc[p].error.kind = "ValueError" =>
                    /\ RejectedInput(proc[p])
                    /\ proc[p].tool \in Tools
                    /\ proc[p].code \in BlankCodes
                    /\ proc[p].key = NoField
                    /\ ~proc[p].hit
                    /\ ~proc[p].prior.known
                    /\ proc[p].plan = <<>>
                    /\ proc[p].log = <<>>
                    /\ proc[p].events = <<>>)
    /\ [][\A p \in Procs :
            (RejectedInput(proc'[p]) /\ ~RejectedInput(proc[p])) =>
                /\ cache' = cache
                /\ cacheLog' = cacheLog
                /\ call_history' = call_history
                /\ backend_calls' = backend_calls
                /\ completed' = completed]_vars

C29_Witness ==
    \E p \in Procs :
        /\ RejectedInput(proc[p])
        /\ proc[p].tool = "create_documentation"
        /\ proc[p].code = " "
        /\ DOMAIN cache # {}
        /\ call_history # <<>>

\* C30: when synthesize_results falls back to combine_results over
\* order_results, a result map with exactly one entry gives that entry's
\* value itself, and a result map with two or more entries gives a value
\* tagged multi_result whose list holds the value of every entry once, in
\* the order in which the entries were put into the map.
FallsBack(st) ==
    IF st.tool = "analyze_and_visualize"
    THEN ~({"analyze", "visualize"} \subseteq DOMAIN st.returned)
    ELSE st.tool = "generate_class_diagram" /\ "generate_diagram" \notin DOMAIN st.returned

ValuesRecorded(d) == [k \in 1..Len(d) |-> d[k].value]

C30_FallbackUnwrapsOneWrapsMany ==
    \A p \in Procs :
        (proc[p].pc = "returned" /\ FallsBack(proc[p])) =>
            /\ Len(proc[p].plan) = 1 => proc[p].result = TextValue(proc[p].plan[1].value)
            /\ Len(proc[p].plan) >= 2 =>
                    /\ proc[p].result.kind = "multi_result"
                    /\ proc[p].result.items = ValuesRecorded(proc[p].plan)

C30_Witness ==
    /\ proc[1].pc = "returned"
    /\ FallsBack(proc[1])
    /\ proc[1].tool = "analyze_and_visualize"
    /\ Len(proc[1].plan) = 2
    /\ proc[1].plan[1].id = "visualize"
    /\ proc[1].plan[2].id = "generate_diagram"
    /\ proc[1].result.kind = "multi_result"
    /\ proc[1].result.items = <<"r2", "r1">>

(***************************************************************************)
(* Cache.invalidate                                                        *)
(***************************************************************************)
\* a step in which invalidate was called
InvalidateCalled == proc'[1] # proc[1] /\ proc'[1].tool = "invalidate"

C32_ResultMapAppendOnly ==
    /\ [](LET st == proc[1]
          IN /\ \A id \in DOMAIN st.given :
                    /\ id \in DOMAIN st.results
                    /\ st.results[id] = st.given[id]
                    /\ \A k \in 1..Len(st.log) : st.log[k].id # id
             /\ \A i, j \in 1..Len(st.log) : i # j => st.log[i].id # st.log[j].id
             /\ \A k \in 1..Len(st.log) : st.log[k].id \notin DOMAIN st.log[k].before
             /\ st.pc = "returned" =>
                    /\ st.returned = st.results
                    /\ \A id \in DOMAIN st.given :
                            id \in DOMAIN st.returned /\ st.returned[id] = st.given[id])
    /\ [][/\ proc'[1].given = proc[1].given
          /\ \A id \in DOMAIN proc[1].results :
                /\ id \in DOMAIN proc'[1].results
                /\ proc'[1].results[id] = proc[1].results[id]]_vars

\* the plan held the assignment analyze, which results_so_far already had,
\* and one more: only the other one was invoked, and the map returned has
\* the earlier value of analyze beside the new result
C32_Witness ==
    /\ proc[1].pc = "returned"
    /\ proc[1].given = ("analyze" :> "old")
    /\ Len(proc[1].plan) = 2
    /\ proc[1].plan[1].id = "analyze"
    /\ proc[1].plan[1].worker_type = "solid_analyzer"
    /\ proc[1].plan[1].subtask.action = "analyze_code"
    /\ Len(proc[1].log) = 1
    /\ proc[1].log[1].id = proc[1].plan[2].id
    /\ DOMAIN proc[1].returned = {"analyze", proc[1].plan[2].id}
    /\ proc[1].returned["analyze"] = "old"
    /\ proc[1].returned[proc[1].plan[2].id] # "old"

(***************************************************************************)
(* The health check loop: its first report.                                *)
(***************************************************************************)
\* C33: every health report, the first one after the loop is started
\* included, is sent after health_check_interval one-second sleeps: no
\* report is sent earlier than health_check_interval seconds after
\* start_health_check.
C33_EveryReportFollowsFullWait ==
    [][ReportSent => router.ticks = HealthCheckInterval]_vars

\* every report but the first one of the thread follows a full wait
C33_LaterReportsFollowFullWait ==
    [][(ReportSent /\ router.reports >= 1) => router.ticks = HealthCheckInterval]_vars

\* the first report has been sent and the loop has not slept yet
C33_FirstReportSentAtOnce ==
    /\ router.reports = 1
    /\ router.health = "wait"
    /\ router.remaining = HealthCheckInterval
    /\ router.ticks = 0

(***************************************************************************)
(* The health check loop after the stop event is set.                      *)
(***************************************************************************)
\* C34: once the stop event is set the health check loop comes to its end
\* (or the process exits and takes the daemon thread with it). After the
\* event is set the loop begins at most one more one-second sleep, every
\* test that finds the event set leads out of the loop, a report is started
\* only by a test of the while condition that found the event clear, and
\* the thread that has ended sends nothing.
C34_StopEndsHealthLoop ==
    /\ [](router.late <= 1)
    /\ [][/\ (router.stop_health_check /\ router.health = "loop")
                => router'.health \in {"loop", "done"}
          /\ (router.stop_health_check /\ router.health = "wait")
                => router'.health \in {"wait", "loop"}
          /\ (router.health # "report" /\ router'.health = "report")
                => (router.health = "loop" /\ ~router.stop_health_check)
          /\ ReportSent => router.health = "report"
          /\ router.health = "done"
                => (router'.health = "done" /\ router'.reports = router.reports)]_vars
    /\ (router.stop_health_check ~> (router.health = "done" \/ router.main = "exited"))

\* the event was set between the test of the wait and its sleep: the loop
\* began that one sleep, found the event set at the next test with its wait
\* not used up, and ended
C34_Witness ==
    /\ router.stop_health_check
    /\ router.health = "done"
    /\ router.late = 1
    /\ router.remaining > 0
    /\ router.joined = "done"

(***************************************************************************)
(* create_plan: the plan holds what was submitted.                         *)
(***************************************************************************)
\* C35: for an acyclic list of assignments with pairwise distinct ids and no
\* dangling dependency, the plan of create_plan is a permutation of the
\* list: it is as long as the list, every submitted assignment stands in it
\* at exactly one place, and every place holds a submitted assignment.
C35_PlanIsPermutation ==
    (/\ planPc = "done"
     /\ DistinctIds(Submitted)
     /\ NoDangling(Submitted)
     /\ ~HasCycle(Submitted))
    => /\ planOut.status = "ok"
       /\ Len(planOut.plan) = Len(Submitted)
       /\ \A i \in 1..Len(Submitted) :
             Cardinality({k \in 1..Len(planOut.plan) : planOut.plan[k] = Submitted[i]}) = 1
       /\ \A k \in 1..Len(planOut.plan) :
             \E i \in 1..Len(Submitted) : planOut.plan[k] = Submitted[i]

\* three assignments, two of them depending on the third, which was
\* submitted last and stands first in the plan
C35_Witness ==
    /\ planPc = "done"
    /\ planOut.status = "ok"
    /\ DistinctIds(Submitted)
    /\ NoDangling(Submitted)
    /\ ~HasCycle(Submitted)
    /\ Len(Submitted) = 3
    /\ Submitted[1].dependencies = <<"b">>
    /\ Submitted[2].dependencies = <<"b">>
    /\ Submitted[3].id = "b"
    /\ Len(planOut.plan) = 3
    /\ planOut.plan[1] = Submitted[3]
    /\ planOut.plan[2] = Submitted[1]
    /\ planOut.plan[3] = Submitted[2]

(***************************************************************************)
(* A tool call that fails and the cache.                                   *)
(***************************************************************************)
\* the caller's call has ended with an exception, or ends with one
Raises(p) == proc'[p] # proc[p] /\ proc'[p].pc = "raised"

\* the caller begins a call that gets as far as a cache key
BeginsCall(p) ==
    /\ started' = started + 1
    /\ proc'[p] # proc[p]
    /\ proc'[p].key # NoField

\* C36: a tool call that fails stores nothing. The step in which a call
\* raises leaves the cache as it was; the cache changes only when a call
\* that went through stores its result, or when clear_cache empties it; an
\* entry found under the key of a failed call was stored by a call with the
\* same request that went through; and a call that finds no entry under
\* its key misses and computes.
C36_FailedCallStoresNothing ==
    /\ [](\A p \in Procs :
            (proc[p].pc = "raised" /\ proc[p].key \in DOMAIN cache) =>
                LET sig == Signature(proc[p].tool, proc[p].code, proc[p].principles)
                IN /\ sig \in DOMAIN completed
                   /\ completed[sig].live
                   /\ cache[proc[p].key] = [timestamp |-> completed[sig].timestamp,
                                            value |-> completed[sig].value])
    /\ [][/\ \A p \in Procs : Raises(p) => cache' = cache
          /\ cache' # cache =>
                IF proc' = proc THEN cache' = EmptyCache
                ELSE \E p \in Procs :
                        /\ proc[p].pc = "store"
                        /\ proc'[p].pc = "returned"
                        /\ cache' = CacheSet(cache, proc[p].key, proc[p].result, now)
          /\ \A p \in Procs :
                (BeginsCall(p) /\ proc'[p].key \notin DOMAIN cache) =>
                    (~proc'[p].hit /\ proc'[p].pc = "exec")]_vars

\* a call has failed in a worker, the cache is empty, and a call with the
\* same request has missed and is computing
C36_Witness ==
    /\ proc[1].pc = "raised"
    /\ proc[1].error.kind = "WorkerError"
    /\ proc[1].tool = "analyze_and_visualize"
    /\ proc[2].pc = "exec"
    /\ proc[2].key = proc[1].key
    /\ ~proc[2].hit
    /\ proc[2].log = <<>>
    /\ cache = EmptyCache
    /\ started = 2

(***************************************************************************)
(* After stop() has returned.                                              *)
(***************************************************************************)
\* stop() has returned and its unregistration was answered 200
StoppedUnregistered ==
    router.main = "stopped" /\ router.unregistered = "ok"

\* a request goes to the router in this step: a health report, or an attempt
\* of register_capabilities by either thread
RouterCalled ==
    \/ router'.reports # router.reports
    \/ \E c \in Callers : router'.reg[c].attempt > router.reg[c].attempt

\* C37: once stop() has returned after a successful unregistration, the
\* instance sends nothing more to the router and is_registered stays false,
\* whatever the health check thread was doing when the join timed out.
C37_NothingAfterStop ==
    /\ [](StoppedUnregistered => ~router.is_registered)
    /\ [][StoppedUnregistered => ~RouterCalled]_vars

\* the same when the join found the thread over
C37_NothingAfterStopWhenJoined ==
    /\ []((StoppedUnregistered /\ router.joined = "done") => ~router.is_registered)
    /\ [][(StoppedUnregistered /\ router.joined = "done") => ~RouterCalled]_vars

\* the join timed out on a report in flight, stop() unregistered and
\* returned, the report was answered 404 and the thread registered again
C37_ReregisteredAfterStop ==
    /\ StoppedUnregistered
    /\ router.joined = "timeout"
    /\ router.reported = 404
    /\ router.reg["health"].outcome = "returned"
    /\ router.is_registered

(***************************************************************************)
(* The health check threads of one RouterIntegration.                      *)
(***************************************************************************)
\* start_health_check returned in this step
CheckReturned == router'.checked # router.checked

\* C38: whatever start, start_health_check and stop calls are made one
\* after another, at most one health check thread of the instance is alive
\* at a time; and when start_health_check returns with the stop event
\* clear, the thread of the attribute is alive and in its loop.
C38_OneHealthThread ==
    /\ [](Cardinality(AliveThreads(router)) <= 1)
    /\ []((router.health_check_thread # 0 /\ ~router.stop_health_check)
            => is_alive(router, router.health_check_thread))
    /\ [][(CheckReturned /\ ~router'.stop_health_check) =>
            /\ router'.health_check_thread # 0
            /\ AliveThreads(router') = {router'.health_check_thread}]_vars

\* stop() left a thread behind in a request, start_health_check found it
\* alive and returned with the stop event set; that thread ended, and the
\* next start_health_check started the one thread now alive
C38_Witness ==
    /\ Len(router.threads) = 2
    /\ router.threads[1] = "done"
    /\ router.threads[2] = "report"
    /\ router.health_check_thread = 2
    /\ router.checked.how = "started"
    /\ ~router.checked.stop_set
    /\ ~router.stop_health_check
    /\ router.main = "idle"
    /\ router.calls = MaxApiCalls

\* start_health_check returned with the stop event set and the thread it
\* found alive on its way out: the case the claim leaves aside
C38_ReturnedWithStopSet ==
    /\ router.checked.how = "alive"
    /\ router.checked.stop_set
    /\ router.main = "idle"
    /\ AliveThreads(router) = {}

====
